---- MODULE Spec2Model ----
(***************************************************************************)
(* The HCI event router of burble (src/src/hci/event/event.rs): the waiter *)
(* queue with its command quota, the receive mutex, the read/write lock    *)
(* around the event buffer, the event decoder, the receiver task with its  *)
(* cancellation token, and the tasks that register waiters and await       *)
(* events.                                                                 *)
(***************************************************************************)
EXTENDS Naturals, Integers, Sequences, FiniteSets, TLC

(* ------------------------------ bounds --------------------------------- *)

\* Number of transfers the transport completes (events, failures).
MaxEvents == 2

\* Number of successful registrations (caps next_id).
MaxRegs == 2

(* ----------------------------- constants ------------------------------- *)

EVT_HDR == 2

\* Opcode: (OGF << 10) | OCF
OpcodeNone == 0
OpcodeSetEventMask == 3 * 1024 + 1
OpcodeReset == 3 * 1024 + 3

\* Every opcode of the Opcode enum.
Opcodes ==
    {0} \cup {3 * 1024 + x : x \in {1, 3, 49, 51, 99, 109}}
        \cup {4 * 1024 + x : x \in {1, 2, 5, 9}}
        \cup {8 * 1024 + x : x \in {1, 2, 96, 26, 27} \cup (53..64)}

\* Opcode::from(u16): num_enum::FromPrimitive, unknown values give the default.
OpcodeFrom(v) == IF v \in Opcodes THEN v ELSE OpcodeNone

StatusSuccess == 0
StatusUnspecifiedError == 31

\* Status::from(u8): unknown values give UnspecifiedError.
StatusFrom(b) == IF b \in ((0..69) \ {43, 49, 51, 63}) THEN b ELSE StatusUnspecifiedError

\* Event codes (one byte on the wire).
DisconnectionComplete == 5
CommandComplete == 14
CommandStatus == 15
HardwareError == 16
NumberOfCompletedPackets == 19
LeMetaEvent == 62

\* An event type: Hci(code) is the code, Le(subevent) is (subevent << 8) | 0x3E.
Hci(code) == code
Le(subevent) == subevent * 256 + LeMetaEvent

LeConnectionComplete == Le(1)
LeLongTermKeyRequest == Le(5)
LeEnhancedConnectionComplete == Le(10)
LeAdvertisingSetTerminated == Le(18)

\* The codes EventCode::try_from accepts, and the LE subevent codes.
HciEventCodes ==
    (1..30) \cup (32..35) \cup (44..54) \cup {56, 57} \cup (59..62) \cup {72}
        \cup (78..89) \cup {255}
SubeventCodes == 1..35

\* param_fmt: the event types whose parameters begin with a status, a handle.
FmtStatus ==
    {1, 3, 5, 6, 7, 8, 9, 10, 11, 12, 13, 14, 15, 18, 20, 28, 29, 33, 35, 44, 45,
     46, 48, 54, 79, 80, 83, 89, 318, 830, 1086, 2110, 2366, 2622, 3134, 3646,
     4670, 5950, 6206, 6462, 6974, 7486, 7998, 8510, 9022}
FmtConnHandle ==
    {3, 5, 6, 8, 9, 10, 11, 12, 13, 17, 20, 27, 28, 29, 30, 33, 35, 44, 45, 46,
     48, 56, 57, 78, 87, 88, 89, 318, 830, 1086, 1342, 1598, 1854, 2622, 3134,
     5182, 5694, 5950, 6206, 6462, 6718, 7998, 8254, 8510, 9022}
FmtSyncHandle == {3646, 3902, 4158, 5438, 8766}
FmtAdvHandle == {4670, 4926}
FmtBigHandle == {6974, 7230, 7486, 7742}
FmtHandle == FmtConnHandle \cup FmtSyncHandle \cup FmtAdvHandle \cup FmtBigHandle

RoleCentral == 0
RolePeripheral == 1

(* --------------------------- event decoder ----------------------------- *)

\* Unpacker over a byte sequence s with the next byte at p (1-based): a read
\* past the end gives zero and leaves the unpacker empty.
U8At(s, p) == IF p <= Len(s) THEN s[p] ELSE 0
U8Next(s, p) == IF p <= Len(s) THEN p + 1 ELSE Len(s) + 1
U16At(s, p) == IF p + 1 <= Len(s) THEN s[p] + 256 * s[p + 1] ELSE 0
U16Next(s, p) == IF p + 1 <= Len(s) THEN p + 2 ELSE Len(s) + 1

\* Event::default()
EventDefault ==
    [typ |-> Hci(LeMetaEvent), status |-> StatusSuccess, cmd_quota |-> 0,
     opcode |-> OpcodeNone, handle |-> 0]

\* EventType::is_cmd
IsCmd(typ) == typ \in {Hci(CommandComplete), Hci(CommandStatus)}

\* The fields try_from reads for a CommandComplete whose parameters start at p;
\* next is where the unread parameters start.
DecodeCommandComplete(s, p) ==
    LET p1 == U8Next(s, p)
        p2 == U16Next(s, p1)
    IN  [typ |-> Hci(CommandComplete),
         cmd_quota |-> U8At(s, p),
         opcode |-> OpcodeFrom(U16At(s, p1)),
         status |-> IF p2 <= Len(s) THEN StatusFrom(U8At(s, p2)) ELSE StatusSuccess,
         handle |-> 0,
         next |-> IF p2 <= Len(s) THEN p2 + 1 ELSE p2]

DecodeCommandStatus(s, p) ==
    LET p1 == U8Next(s, p)
        p2 == U8Next(s, p1)
    IN  [typ |-> Hci(CommandStatus),
         status |-> StatusFrom(U8At(s, p)),
         cmd_quota |-> U8At(s, p1),
         opcode |-> OpcodeFrom(U16At(s, p2)),
         handle |-> 0,
         next |-> U16Next(s, p2)]

DecodeOther(typ, s, p) ==
    LET hasStatus == typ \in FmtStatus
        p1 == IF hasStatus THEN U8Next(s, p) ELSE p
        hasHandle == typ \in FmtHandle
        short == typ \in (FmtAdvHandle \cup FmtBigHandle)
    IN  [typ |-> typ,
         status |-> IF hasStatus THEN StatusFrom(U8At(s, p)) ELSE StatusSuccess,
         cmd_quota |-> 0,
         opcode |-> OpcodeNone,
         handle |-> IF ~hasHandle THEN 0
                    ELSE IF short THEN U8At(s, p1) ELSE U16At(s, p1),
         next |-> IF ~hasHandle THEN p1
                  ELSE IF short THEN U8Next(s, p1) ELSE U16Next(s, p1)]

DecodeParams(typ, s, p) ==
    IF typ = Hci(CommandComplete) THEN DecodeCommandComplete(s, p)
    ELSE IF typ = Hci(CommandStatus) THEN DecodeCommandStatus(s, p)
    ELSE DecodeOther(typ, s, p)

\* A try_from that trusts the buffer and ignores the header's length byte.
TryFrom_NoLengthCheck(orig) ==
    IF Len(orig) < EVT_HDR
    THEN [ok |-> FALSE, err |-> "InvalidEvent"]
    ELSE IF orig[1] = LeMetaEvent
    THEN IF U8At(orig, 3) \in SubeventCodes
         THEN [ok |-> TRUE,
               dec |-> DecodeParams(Le(U8At(orig, 3)), orig, U8Next(orig, 3))]
         ELSE [ok |-> FALSE, err |-> "UnknownEvent"]
    ELSE IF orig[1] \in HciEventCodes
    THEN [ok |-> TRUE, dec |-> DecodeParams(Hci(orig[1]), orig, EVT_HDR + 1)]
    ELSE [ok |-> FALSE, err |-> "UnknownEvent"]

\* Event::try_from(orig): [ok, evt, params] where params counts the bytes the
\* header decoding consumed (buf.len() - evt.params.len()).
TryFrom(orig) ==
    IF Len(orig) < EVT_HDR \/ Len(orig) - EVT_HDR # orig[2]
    THEN [ok |-> FALSE, err |-> "InvalidEvent"]
    ELSE IF orig[1] = LeMetaEvent
    THEN IF U8At(orig, 3) \in SubeventCodes
         THEN [ok |-> TRUE,
               dec |-> DecodeParams(Le(U8At(orig, 3)), orig, U8Next(orig, 3))]
         ELSE [ok |-> FALSE, err |-> "UnknownEvent"]
    ELSE IF orig[1] \in HciEventCodes
    THEN [ok |-> TRUE, dec |-> DecodeParams(Hci(orig[1]), orig, EVT_HDR + 1)]
    ELSE [ok |-> FALSE, err |-> "UnknownEvent"]

\* The Event metadata kept by the receiver (params dropped).
EventOf(dec) ==
    [typ |-> dec.typ, status |-> dec.status, cmd_quota |-> dec.cmd_quota,
     opcode |-> dec.opcode, handle |-> dec.handle]

(* ------------------------------ filters -------------------------------- *)

\* EventFilter: <<kind, opcode>>, the opcode 0 for the kinds without one.
Command(op) == <<"Command", op>>
AdvManager == <<"AdvManager", 0>>
ChanManager == <<"ChanManager", 0>>
SecDb == <<"SecDb", 0>>

\* The filters the tasks register.
Filters ==
    {Command(OpcodeReset), Command(OpcodeSetEventMask), AdvManager, ChanManager, SecDb}

\* The filters each task registers: both submit commands, and the subsystem
\* filters are shared out between them.
TaskFilters(t) ==
    IF t = "t1" THEN {Command(OpcodeReset), Command(OpcodeSetEventMask), AdvManager}
    ELSE {Command(OpcodeSetEventMask), ChanManager, SecDb}

\* A conflicts_with that compares the variants and not the opcodes.
conflicts_with_SameVariant(f, g) == f[1] = g[1]

\* EventFilter::conflicts_with: derived equality.
conflicts_with(f, g) == f = g

\* The role byte LeConnectionComplete::from reads first from the parameters
\* left after the header (EventReceiver::event: the buffer from params on).
EventRole(buf, par) == U8At(buf, par + 1)

\* A matches that hands a command event to every command waiter.
matches_AnyCommand(e, buf, par, f) ==
    IF e.typ \in {Hci(CommandComplete), Hci(CommandStatus)}
    THEN f[1] = "Command"
    ELSE IF e.typ \in {Hci(DisconnectionComplete), Hci(NumberOfCompletedPackets)}
    THEN f = ChanManager
    ELSE IF e.typ \in {LeConnectionComplete, LeEnhancedConnectionComplete}
    THEN IF f[1] = "Command" THEN FALSE
         ELSE IF f = AdvManager THEN EventRole(buf, par) = RolePeripheral
         ELSE TRUE
    ELSE IF e.typ = LeLongTermKeyRequest THEN f = SecDb
    ELSE IF e.typ = LeAdvertisingSetTerminated THEN f = AdvManager
    ELSE FALSE

\* A matches that hands LE connection events to the advertising manager
\* whatever the role.
matches_AdvAnyRole(e, buf, par, f) ==
    IF e.typ \in {Hci(DisconnectionComplete), Hci(NumberOfCompletedPackets)}
    THEN f = ChanManager
    ELSE IF e.typ \in {Hci(CommandComplete), Hci(CommandStatus)}
    THEN f[1] = "Command" /\ f[2] = e.opcode
    ELSE IF e.typ \in {LeConnectionComplete, LeEnhancedConnectionComplete}
    THEN f[1] # "Command"
    ELSE IF e.typ = LeLongTermKeyRequest THEN f = SecDb
    ELSE IF e.typ = LeAdvertisingSetTerminated THEN f = AdvManager
    ELSE FALSE

\* EventGuard::matches, of the event e held in buffer buf against filter f.
matches(e, buf, par, f) ==
    IF e.typ \in {Hci(DisconnectionComplete), Hci(NumberOfCompletedPackets)}
    THEN f = ChanManager
    ELSE IF e.typ \in {Hci(CommandComplete), Hci(CommandStatus)}
    THEN f[1] = "Command" /\ f[2] = e.opcode
    ELSE IF e.typ \in {LeConnectionComplete, LeEnhancedConnectionComplete}
    THEN IF f[1] = "Command" THEN FALSE
         ELSE IF f = AdvManager THEN EventRole(buf, par) = RolePeripheral
         ELSE TRUE
    ELSE IF e.typ = LeLongTermKeyRequest THEN f = SecDb
    ELSE IF e.typ = LeAdvertisingSetTerminated THEN f = AdvManager
    ELSE FALSE

\* An ok() that does not look at the status.
ok_AnyStatus(e) ==
    IF ~IsCmd(e.typ) THEN [kind |-> "NonCommandEvent", typ |-> e.typ]
    ELSE [kind |-> "Ok", evt |-> e]

\* EventGuard::ok, of the event e the guard gives access to.
ok(e) ==
    IF ~IsCmd(e.typ) THEN [kind |-> "NonCommandEvent", typ |-> e.typ]
    ELSE IF e.status # StatusSuccess
    THEN [kind |-> "CommandFailed", opcode |-> e.opcode, status |-> e.status]
    ELSE [kind |-> "Ok", evt |-> e]

(* ------------------------------- state --------------------------------- *)

\* Tasks that register waiters and await events; callers of recv_event: the
\* receiver task (EventReceiverTask::run) and a direct caller of Host::event.
Tasks == {"t1", "t2"}
Callers == {"task", "host"}

\* What the transport delivers: well-formed events and a malformed one.
WireEvents ==
    {<<14, 4, 1, 3, 12, 0>>,       \* CommandComplete(Reset), quota 1
     <<14, 4, 2, 1, 12, 12>>,      \* CommandComplete(SetEventMask), quota 2, CommandDisallowed
     <<15, 4, 12, 0, 1, 12>>,      \* CommandStatus(SetEventMask), CommandDisallowed, quota 0
     <<14, 3, 2, 0, 0>>,           \* CommandComplete(None), quota 2
     <<5, 4, 0, 1, 0, 19>>,        \* DisconnectionComplete
     <<19, 1, 0>>,                 \* NumberOfCompletedPackets
     <<62, 5, 1, 0, 1, 0, 1>>,     \* LE ConnectionComplete, Peripheral
     <<62, 5, 10, 0, 1, 0, 0>>,    \* LE EnhancedConnectionComplete, Central
     <<62, 3, 5, 1, 0>>,           \* LE LongTermKeyRequest
     <<62, 3, 18, 0, 1>>,          \* LE AdvertisingSetTerminated
     <<16, 1, 0>>,                 \* HardwareError
     <<14, 9, 1>>}                 \* length byte does not match

NoId == -1
NoGuard == 0
NoFilter == <<"none", 0>>

VARIABLES
    queue,      \* Waiters.queue: sequence of [id, filter, ready]
    next_id,    \* Waiters.next_id
    cmd_quota,  \* Waiters.cmd_quota
    budget,     \* the quota the last command event announced (1 at the start),
                \* less the Command registrations since
    mutex,      \* EventRouter.recv: "none" or the caller holding it
    readers,    \* read guards of the event buffer's RwLock
    writer,     \* whether the write guard is held
    xfer,       \* EventReceiver.xfer: the bytes of the last transfer
    evt,        \* EventReceiver.evt
    params,     \* EventReceiver.params
    nread,      \* transfers completed so far: names the buffer's content
    cancelled,  \* the receiver task's CancellationToken
    cpc,        \* per caller: where it is in recv_event
    cguard,     \* per caller: the EventGuard recv_event returned
    wid,        \* per task: the id of its EventWaiterGuard, or NoId
    tfilter,    \* per task: the filter of its last register call, until the
                \* waiter is dropped
    tpc,        \* per task: "run", or "parked" in next() until notified
    tguard,     \* per task: the EventGuard next() returned
    tres,       \* per task: the result of its last register or next call
    tlast,      \* per task: the transfer whose event its waiter got last
    attr,       \* Schema.attr: the attribute array
    call,       \* the schema operation called last, with its arguments
    it,         \* GroupIter.it: the index of the next attribute it looks at
    result      \* what the operation returned (yielded so far)

vars ==
    <<queue, next_id, cmd_quota, budget, mutex, readers, writer, xfer, evt, params,
      nread, cancelled, cpc, cguard, wid, tfilter, tpc, tguard, tres, tlast,
      attr, call, it, result>>

routerVars == <<queue, next_id, cmd_quota, budget>>
recvVars == <<mutex, readers, writer, xfer, evt, params, nread>>
callerVars == <<cpc, cguard>>
taskVars == <<wid, tfilter, tpc, tguard, tres, tlast>>
schemaVars == <<attr, call, it, result>>
hostVars == <<routerVars, recvVars, cancelled, callerVars, taskVars>>

\* No schema operation has been called.
NoCall ==
    [op |-> "none", start |-> 0, end |-> 0, uuid |-> "", req |-> "", state |-> "done"]

\* Waiters::default, EventRouter::default, EventReceiver::default
HostInit ==
    /\ queue = <<>>
    /\ next_id = 0
    /\ cmd_quota = 1
    /\ budget = 1
    /\ mutex = "none"
    /\ readers = 0
    /\ writer = FALSE
    /\ xfer = <<>>
    /\ evt = EventDefault
    /\ params = 0
    /\ nread = 0
    /\ cancelled = FALSE
    /\ cpc = [c \in Callers |-> "idle"]
    /\ cguard = [c \in Callers |-> NoGuard]
    /\ wid = [t \in Tasks |-> NoId]
    /\ tfilter = [t \in Tasks |-> NoFilter]
    /\ tpc = [t \in Tasks |-> "run"]
    /\ tguard = [t \in Tasks |-> NoGuard]
    /\ tres = [t \in Tasks |-> "none"]
    /\ tlast = [t \in Tasks |-> 0]

\* Schema::default
SchemaDefault ==
    /\ attr = <<>>
    /\ call = NoCall
    /\ it = 0
    /\ result = <<>>

\* The host with an empty schema.
Init == HostInit /\ SchemaDefault

(* ------------------------------ helpers -------------------------------- *)

\* The indices of the waiters with id i (queue.iter().position(|w| w.id == i)).
Position(q, i) == {k \in 1..Len(q) : q[k].id = i}

\* A removal that pops the back of the queue whatever the index.
swap_remove_back_PopBack(q, k) == SubSeq(q, 1, Len(q) - 1)

\* VecDeque::swap_remove_back(i): the last element takes the place of the
\* removed one.
swap_remove_back(q, k) ==
    IF k = Len(q) THEN SubSeq(q, 1, Len(q) - 1)
    ELSE SubSeq([q EXCEPT ![k] = q[Len(q)]], 1, Len(q) - 1)

\* A recv_event that fills the ready slots and wakes nobody.
notify_all_None(pcs) == pcs

\* Condvar::notify_all: every task parked in notified() becomes runnable.
notify_all(pcs) == [t \in Tasks |-> "run"]

(* ------------------------- EventRouter::register ------------------------ *)

\* A register that looks at the quota before it looks for a conflict.
RegisterResult_QuotaFirst(f) ==
    IF f[1] = "Command" /\ cmd_quota = 0 THEN "CommandQuotaExceeded"
    ELSE IF \E k \in 1..Len(queue) : conflicts_with(f, queue[k].filter) THEN "FilterConflict"
    ELSE "ok"

\* The error register(f) returns, "ok" when it registers.
RegisterResult(f) ==
    IF \E k \in 1..Len(queue) : conflicts_with(f, queue[k].filter) THEN "FilterConflict"
    ELSE IF f[1] = "Command" /\ cmd_quota = 0 THEN "CommandQuotaExceeded"
    ELSE "ok"

\* A register that charges a Reset like any other command.
QuotaAfterRegister_ResetCharged(f) ==
    IF f[1] # "Command" THEN cmd_quota ELSE cmd_quota - 1

\* The quota after a successful register(f).
QuotaAfterRegister(f) ==
    IF f[1] # "Command" THEN cmd_quota
    ELSE IF f[2] = OpcodeReset THEN 0
    ELSE cmd_quota - 1

\* Task t calls register(f).
Register(t, f) ==
    /\ wid[t] = NoId
    /\ tpc[t] = "run"
    /\ next_id < MaxRegs
    /\ LET r == RegisterResult(f) IN
        /\ tres' = [tres EXCEPT ![t] = r]
        /\ tfilter' = [tfilter EXCEPT ![t] = f]
        /\ IF r = "ok"
           THEN /\ cmd_quota' = QuotaAfterRegister(f)
                /\ budget' = IF f[1] = "Command" THEN budget - 1 ELSE budget
                /\ next_id' = next_id + 1
                /\ queue' = Append(queue, [id |-> next_id, filter |-> f, ready |-> NoGuard])
                /\ wid' = [wid EXCEPT ![t] = next_id]
           ELSE UNCHANGED <<cmd_quota, budget, next_id, queue, wid>>
    /\ UNCHANGED <<recvVars, cancelled, callerVars, tpc, tguard, tlast>>

(* ------------------------ EventWaiterGuard::next ----------------------- *)

\* A take that leaves the guard in the slot.
take_Keep(w) == w

\* Option::take on a waiter's ready slot: the slot is left empty.
take(w) == [w EXCEPT !.ready = NoGuard]

\* Condvar::notified: the waiters' lock is released and the task suspended in
\* one step, so that a notify_all between the two cannot be missed.
notified(pcs, t) == [pcs EXCEPT ![t] = "parked"]

\* One poll of next() by task t: the first one, or one after a wake-up.  The
\* task holds no EventGuard across the await.
NextPoll(t) ==
    /\ wid[t] # NoId
    /\ tguard[t] = NoGuard
    /\ tpc[t] = "run"
    /\ LET ks == Position(queue, wid[t]) IN
        IF ks = {}
        THEN /\ tres' = [tres EXCEPT ![t] = "UnspecifiedError"]
             /\ tpc' = [tpc EXCEPT ![t] = "run"]
             /\ UNCHANGED <<queue, tguard, tlast>>
        ELSE LET k == CHOOSE x \in ks : \A y \in ks : x <= y IN
             IF queue[k].ready # NoGuard
             THEN /\ queue' = [queue EXCEPT ![k] = take(queue[k])]
                  /\ tguard' = [tguard EXCEPT ![t] = queue[k].ready]
                  /\ tlast' = [tlast EXCEPT ![t] = queue[k].ready]
                  /\ tres' = [tres EXCEPT ![t] = "event"]
                  /\ tpc' = [tpc EXCEPT ![t] = "run"]
             ELSE /\ tpc' = notified(tpc, t)
                  /\ UNCHANGED <<queue, tguard, tlast, tres>>
    /\ UNCHANGED <<next_id, cmd_quota, budget, recvVars, cancelled, callerVars, wid,
                   tfilter>>

\* Task t drops the future of next() it is awaiting.
CancelNext(t) ==
    /\ tpc[t] = "parked"
    /\ tpc' = [tpc EXCEPT ![t] = "run"]
    /\ UNCHANGED <<routerVars, recvVars, cancelled, callerVars, wid, tfilter, tguard,
                   tres, tlast>>

(* ---------------------- Drop for EventWaiterGuard ---------------------- *)

\* The queue after the waiter with id i is dropped.
QueueAfterDrop(q, i) ==
    LET ks == Position(q, i) IN
    IF ks = {} THEN q
    ELSE swap_remove_back(q, CHOOSE x \in ks : \A y \in ks : x <= y)

\* The read guards a queue holds in its ready slots.
ReadyGuards(q) == Cardinality({k \in 1..Len(q) : q[k].ready # NoGuard})

\* A drop that gives the quota of a command waiter back.
DropWaiter_Refund(t) ==
    /\ wid[t] # NoId
    /\ queue' = QueueAfterDrop(queue, wid[t])
    /\ readers' = readers - (ReadyGuards(queue) - ReadyGuards(queue'))
    /\ wid' = [wid EXCEPT ![t] = NoId]
    /\ tpc' = [tpc EXCEPT ![t] = "run"]
    /\ tfilter' = [tfilter EXCEPT ![t] = NoFilter]
    /\ tres' = [tres EXCEPT ![t] = "none"]
    /\ tlast' = [tlast EXCEPT ![t] = 0]
    /\ cmd_quota' = IF tfilter[t][1] = "Command" THEN cmd_quota + 1 ELSE cmd_quota
    /\ UNCHANGED <<next_id, budget, mutex, writer, xfer, evt, params, nread,
                   cancelled, callerVars, tguard>>

\* Task t drops its EventWaiterGuard (and with it a pending next()).  The
\* removed waiter's ready guard is dropped with it.
DropWaiter(t) ==
    /\ wid[t] # NoId
    /\ queue' = QueueAfterDrop(queue, wid[t])
    /\ readers' = readers - (ReadyGuards(queue) - ReadyGuards(queue'))
    /\ wid' = [wid EXCEPT ![t] = NoId]
    /\ tpc' = [tpc EXCEPT ![t] = "run"]
    /\ tfilter' = [tfilter EXCEPT ![t] = NoFilter]
    /\ tres' = [tres EXCEPT ![t] = "none"]
    /\ tlast' = [tlast EXCEPT ![t] = 0]
    /\ UNCHANGED <<next_id, cmd_quota, budget, mutex, writer, xfer, evt, params, nread,
                   cancelled, callerVars, tguard>>

\* Task t drops the EventGuard it got from next().
DropEvent(t) ==
    /\ tguard[t] # NoGuard
    /\ tguard' = [tguard EXCEPT ![t] = NoGuard]
    /\ readers' = readers - 1
    /\ UNCHANGED <<routerVars, mutex, writer, xfer, evt, params, nread, cancelled,
                   callerVars, wid, tfilter, tpc, tres, tlast>>

(* ----------------------- EventRouter::recv_event ------------------------ *)

\* Caller c takes the receive mutex.
RecvLock(c) ==
    /\ cpc[c] = "idle"
    /\ mutex = "none"
    /\ nread < MaxEvents
    /\ mutex' = c
    /\ cpc' = [cpc EXCEPT ![c] = "locked"]
    /\ UNCHANGED <<routerVars, readers, writer, xfer, evt, params, nread, cancelled,
                   cguard, taskVars>>

\* A write lock that does not wait for the read guards.
CanWrite_IgnoreReaders == ~writer

\* write_owned() succeeds once no read guard is left; EventReceiver::next
\* starts by clearing params.
CanWrite == readers = 0 /\ ~writer

RecvWrite(c) ==
    /\ cpc[c] = "locked"
    /\ CanWrite
    /\ writer' = TRUE
    /\ params' = 0
    /\ cpc' = [cpc EXCEPT ![c] = "receiving"]
    /\ UNCHANGED <<routerVars, mutex, readers, xfer, evt, nread, cancelled, cguard,
                   taskVars>>

\* A watchdog whose panic leaves the receive mutex locked.
RecvStalled_KeepsMutex(c) ==
    /\ cpc[c] = "locked"
    /\ readers > 0
    /\ cpc' = [cpc EXCEPT ![c] = "panicked"]
    /\ UNCHANGED <<routerVars, recvVars, cancelled, cguard, taskVars>>

\* The 3 s timeout expires while a read guard is still held: expect() panics
\* and the unwinding releases the mutex.
RecvStalled(c) ==
    /\ cpc[c] = "locked"
    /\ readers > 0
    /\ mutex' = "none"
    /\ cpc' = [cpc EXCEPT ![c] = "panicked"]
    /\ UNCHANGED <<routerVars, readers, writer, xfer, evt, params, nread, cancelled,
                   cguard, taskVars>>

\* A recv_event that hands every event to every waiter.
Matching_All(q, e, buf, par) == 1..Len(q)

\* The indices of the waiters an event is handed to.
Matching(q, e, buf, par) == {k \in 1..Len(q) : matches(e, buf, par, q[k].filter)}

\* A quota update that skips the command events without an opcode.
QuotaAfterEvent_OpcodeOnly(e) ==
    IF IsCmd(e.typ) /\ e.opcode # OpcodeNone THEN e.cmd_quota ELSE cmd_quota

\* The quota after an event is received.
QuotaAfterEvent(e) == IF IsCmd(e.typ) THEN e.cmd_quota ELSE cmd_quota

\* The transfer completes with bytes b that decode: the event is stored, the
\* write guard is downgraded, every matching waiter gets a read guard in its
\* ready slot and all are notified; the caller gets the event's guard.
RecvEvent(c, b) ==
    /\ cpc[c] = "receiving"
    /\ TryFrom(b).ok
    /\ LET dec == TryFrom(b).dec
           e == EventOf(dec)
           par == dec.next - 1
           ms == Matching(queue, e, b, par)
           old == {k \in ms : queue[k].ready # NoGuard}
       IN
        /\ nread' = nread + 1
        /\ xfer' = b
        /\ evt' = e
        /\ params' = par
        /\ writer' = FALSE
        /\ cmd_quota' = QuotaAfterEvent(e)
        /\ budget' = IF IsCmd(e.typ) THEN e.cmd_quota ELSE budget
        /\ queue' = [k \in 1..Len(queue) |->
                        IF k \in ms THEN [queue[k] EXCEPT !.ready = nread + 1]
                        ELSE queue[k]]
        /\ readers' = readers + 1 + Cardinality(ms) - Cardinality(old)
        /\ tpc' = IF ms # {} THEN notify_all(tpc) ELSE tpc
        /\ cguard' = [cguard EXCEPT ![c] = nread + 1]
    /\ mutex' = "none"
    /\ cpc' = [cpc EXCEPT ![c] = "holding"]
    /\ UNCHANGED <<next_id, cancelled, wid, tfilter, tguard, tres, tlast>>

\* Where a caller is after recv_event returned an error: the receiver task
\* returns the error and ends, a direct caller may call again.
AfterError(c) == IF c = "task" THEN "failed" ELSE "idle"

\* A recv_event that ignores the error of next() and hands out a guard of
\* the buffer all the same.
RecvInvalid_GuardAnyway(c, b) ==
    /\ cpc[c] = "receiving"
    /\ ~TryFrom(b).ok
    /\ nread' = nread + 1
    /\ xfer' = b
    /\ writer' = FALSE
    /\ mutex' = "none"
    /\ readers' = readers + 1
    /\ cguard' = [cguard EXCEPT ![c] = nread + 1]
    /\ cpc' = [cpc EXCEPT ![c] = "holding"]
    /\ UNCHANGED <<routerVars, evt, params, cancelled, taskVars>>

\* The transfer completes with bytes that do not decode: next() returns the
\* decoding error and recv_event returns it, releasing the lock and the mutex.
RecvInvalid(c, b) ==
    /\ cpc[c] = "receiving"
    /\ ~TryFrom(b).ok
    /\ nread' = nread + 1
    /\ xfer' = b
    /\ writer' = FALSE
    /\ mutex' = "none"
    /\ cpc' = [cpc EXCEPT ![c] = AfterError(c)]
    /\ UNCHANGED <<routerVars, readers, evt, params, cancelled, cguard, taskVars>>

\* The transfer fails (submit or result is an error).
RecvError(c) ==
    /\ cpc[c] = "receiving"
    /\ nread' = nread + 1
    /\ xfer' = <<>>
    /\ writer' = FALSE
    /\ mutex' = "none"
    /\ cpc' = [cpc EXCEPT ![c] = AfterError(c)]
    /\ UNCHANGED <<routerVars, readers, evt, params, cancelled, cguard, taskVars>>

\* The caller drops the EventGuard recv_event returned (the receiver task at
\* the end of its loop iteration).
DropGuard(c) ==
    /\ cpc[c] = "holding"
    /\ cguard' = [cguard EXCEPT ![c] = NoGuard]
    /\ readers' = readers - 1
    /\ cpc' = [cpc EXCEPT ![c] = "idle"]
    /\ UNCHANGED <<routerVars, mutex, writer, xfer, evt, params, nread, cancelled,
                   taskVars>>

(* ------------------------- EventReceiverTask --------------------------- *)

\* EventReceiverTask::disable, or its drop guard: the token is cancelled.
Cancel ==
    /\ ~cancelled
    /\ cancelled' = TRUE
    /\ UNCHANGED <<routerVars, recvVars, callerVars, taskVars>>

\* run(): select! takes the cancelled() branch; the recv_event future is
\* dropped at its await (on the mutex, the write lock or the transfer) and
\* gives back what it holds; the task returns Ok(()).
TaskStop ==
    /\ cancelled
    /\ cpc["task"] \in {"idle", "locked", "receiving"}
    /\ mutex' = IF mutex = "task" THEN "none" ELSE mutex
    /\ writer' = IF cpc["task"] = "receiving" THEN FALSE ELSE writer
    /\ cpc' = [cpc EXCEPT !["task"] = "done"]
    /\ UNCHANGED <<routerVars, readers, xfer, evt, params, nread, cancelled, cguard,
                   taskVars>>

(* ---------------------------- specification ---------------------------- *)

\* The steps of the tasks TS and of the callers CS of recv_event.
Step(TS, CS) ==
    \/ \E t \in TS : \E f \in TaskFilters(t) : Register(t, f)
    \/ \E t \in TS : NextPoll(t)
    \/ \E t \in TS : CancelNext(t)
    \/ \E t \in TS : DropWaiter(t)
    \/ \E t \in TS : DropEvent(t)
    \/ \E c \in CS : RecvLock(c)
    \/ \E c \in CS : RecvWrite(c)
    \/ \E c \in CS : RecvStalled(c)
    \/ \E c \in CS, b \in WireEvents : RecvEvent(c, b)
    \/ \E c \in CS, b \in WireEvents : RecvInvalid(c, b)
    \/ \E c \in CS : RecvError(c)
    \/ \E c \in CS : DropGuard(c)
    \/ Cancel
    \/ TaskStop

\* The host as it is deployed: the receiver task is the one caller of
\* recv_event, and two tasks register waiters.
Next == Step(Tasks, {"task"}) /\ UNCHANGED schemaVars

Spec == Init /\ [][Next]_vars

\* The receiver task and a direct caller of Host::event compete for the
\* receive mutex and the event buffer, with one task registering waiters.
NextHost == Step({"t1"}, Callers) /\ UNCHANGED schemaVars

SpecHost == Init /\ [][NextHost]_vars

\* What the code's scheduling guarantees: a runnable task is polled, guards
\* are not held across an await, the receiver task keeps receiving and stops
\* once its token is cancelled.
ReceiverStep ==
    \/ RecvLock("task")
    \/ RecvWrite("task")
    \/ \E b \in WireEvents : RecvEvent("task", b)
    \/ DropGuard("task")

FairSpec ==
    /\ Spec
    /\ WF_vars(TaskStop /\ UNCHANGED schemaVars)
    /\ WF_vars(ReceiverStep /\ UNCHANGED schemaVars)
    /\ \A t \in Tasks :
        /\ WF_vars(NextPoll(t) /\ UNCHANGED schemaVars)
        /\ WF_vars(DropEvent(t) /\ UNCHANGED schemaVars)

(* ------------------------- shared by the claims ------------------------ *)

IsCommandFilter(f) == f[1] = "Command"

\* Task t has a waiter in the queue.
HasWaiter(t) == wid[t] # NoId /\ Position(queue, wid[t]) # {}
WaiterOf(t) == queue[CHOOSE k \in Position(queue, wid[t]) : TRUE]

\* This step is a register call of task t (one that changed the state).
Registering(t) ==
    /\ wid[t] = NoId
    /\ \/ wid'[t] # NoId
       \/ tfilter'[t] # tfilter[t]
       \/ /\ tres'[t] # tres[t]
          /\ tres'[t] \in {"FilterConflict", "CommandQuotaExceeded"}

\* This step is a recv_event that handed out an event.
Delivering == nread' # nread /\ cguard' # cguard

\* This step is a next() of task t that returned an event.
Obtaining(t) == tguard[t] = NoGuard /\ tguard'[t] # NoGuard

\* Every view of the event buffer that exists: the callers' guards, the
\* tasks' guards and the guards parked in ready slots.
GuardValues ==
    {cguard[c] : c \in Callers} \cup {tguard[t] : t \in Tasks}
        \cup {queue[k].ready : k \in 1..Len(queue)}
GuardCount ==
    Cardinality({c \in Callers : cguard[c] # NoGuard})
        + Cardinality({t \in Tasks : tguard[t] # NoGuard})
        + ReadyGuards(queue)

(* -------------------------------- C1 ----------------------------------- *)

\* C1: a task whose waiter has the filter Command(op) and that holds the
\* event its next() returned sees a CommandComplete or CommandStatus event
\* whose opcode is op.
C1_CommandPairing ==
    \A t \in Tasks :
        (HasWaiter(t) /\ IsCommandFilter(tfilter[t]) /\ tres[t] = "event"
            /\ tguard[t] # NoGuard)
        => (IsCmd(evt.typ) /\ evt.opcode = tfilter[t][2])

\* Two commands are pending and the response of one has been obtained by
\* its waiter, the other waiter being left alone.
C1_Witness ==
    /\ HasWaiter("t1") /\ tfilter["t1"] = Command(OpcodeReset)
    /\ tres["t1"] = "event" /\ tguard["t1"] # NoGuard
    /\ HasWaiter("t2") /\ tfilter["t2"] = Command(OpcodeSetEventMask)
    /\ WaiterOf("t2").ready = NoGuard /\ tlast["t2"] = 0

(* -------------------------------- C2 ----------------------------------- *)

\* Some waiter in the queue has a filter equal to f.
Registered(f) == \E k \in 1..Len(queue) : queue[k].filter = f

\* C2 as stated: a Command registration succeeds only while cmd_quota > 0,
\* and with cmd_quota = 0 it fails with CommandQuotaExceeded.
C2_Original ==
    [][\A t \in Tasks :
        (Registering(t) /\ IsCommandFilter(tfilter'[t]))
        => /\ tres'[t] = "ok" => cmd_quota > 0
           /\ cmd_quota = 0 => tres'[t] = "CommandQuotaExceeded"]_vars

\* C2: a Command registration succeeds only while cmd_quota > 0; with
\* cmd_quota = 0 it fails, with FilterConflict when an equal filter is
\* registered and with CommandQuotaExceeded otherwise, and
\* CommandQuotaExceeded is returned only with cmd_quota = 0.  A successful
\* Command(Reset) sets cmd_quota to 0, any other successful Command
\* registration lowers it by exactly 1, a failed one leaves it alone, and it
\* never goes below zero.  The successful Command registrations since the last
\* command event (since the start) never exceed the quota that event
\* announced (1 at the start).  AdvManager, ChanManager and SecDb never fail
\* with CommandQuotaExceeded, register at any quota and leave it unchanged.
C2_QuotaRules ==
    /\ [](cmd_quota >= 0 /\ budget >= 0 /\ cmd_quota <= budget)
    /\ [][\A t \in Tasks :
            Registering(t)
            => LET f == tfilter'[t]
                   r == tres'[t]
               IN  IF IsCommandFilter(f)
                   THEN /\ r = "ok" =>
                            /\ cmd_quota > 0
                            /\ cmd_quota' = IF f[2] = OpcodeReset THEN 0
                                            ELSE cmd_quota - 1
                        /\ r # "ok" => cmd_quota' = cmd_quota
                        /\ cmd_quota = 0 =>
                            r = IF Registered(f) THEN "FilterConflict"
                                ELSE "CommandQuotaExceeded"
                        /\ r = "CommandQuotaExceeded" => cmd_quota = 0
                   ELSE /\ r # "CommandQuotaExceeded"
                        /\ r = "ok" <=> ~Registered(f)
                        /\ cmd_quota' = cmd_quota]_vars

\* Reset is registered, no event has arrived, and a second command was
\* turned away with CommandQuotaExceeded.
C2_Witness ==
    /\ HasWaiter("t1") /\ tfilter["t1"] = Command(OpcodeReset)
    /\ nread = 0 /\ cmd_quota = 0
    /\ tfilter["t2"] = Command(OpcodeSetEventMask)
    /\ tres["t2"] = "CommandQuotaExceeded"

(* -------------------------------- C3 ----------------------------------- *)

\* Task t has registered Command(Reset) and no event has matched its waiter
\* since: the response to the Reset has not been received.
ResetPending(t) ==
    /\ HasWaiter(t)
    /\ tfilter[t] = Command(OpcodeReset)
    /\ tlast[t] = 0
    /\ WaiterOf(t).ready = NoGuard

\* C3: while a registered Command(Reset) awaits its response, cmd_quota is 0.
C3_ResetHoldsQuota == \A t \in Tasks : ResetPending(t) => cmd_quota = 0

(* -------------------------------- C4 ----------------------------------- *)

\* The command-quota byte of a command event as it is on the wire:
\* Num_HCI_Command_Packets is the first parameter of a CommandComplete and the
\* second of a CommandStatus.
WireQuota(b) == IF b[1] = CommandComplete THEN b[3] ELSE b[4]

C5_FilterConflict ==
    /\ [](\A j, k \in 1..Len(queue) : queue[j].filter = queue[k].filter => j = k)
    /\ [][\A t \in Tasks :
            Registering(t)
            => (tres'[t] = "FilterConflict" <=> Registered(tfilter'[t]))]_vars

\* SetEventMask is pending for one task and the other was refused the same
\* filter.
C5_Witness ==
    /\ HasWaiter("t1") /\ tfilter["t1"] = Command(OpcodeSetEventMask)
    /\ tfilter["t2"] = Command(OpcodeSetEventMask)
    /\ tres["t2"] = "FilterConflict"

(* -------------------------------- C6 ----------------------------------- *)

\* The ids of the waiters in queue q.
QueueIds(q) == {q[k].id : k \in 1..Len(q)}

\* This step drops the EventWaiterGuard of task t.
Dropping(t) == wid[t] # NoId /\ wid'[t] = NoId

\* C6: the waiters in the queue are those of the EventWaiterGuards that exist,
\* one each; dropping a guard removes the waiter with its id and leaves every
\* other waiter as it was; with every guard dropped the queue is empty.
C6_DropRemovesWaiter ==
    /\ [](/\ QueueIds(queue) = {wid[t] : t \in {u \in Tasks : wid[u] # NoId}}
          /\ Len(queue) = Cardinality(QueueIds(queue)))
    /\ []((\A t \in Tasks : wid[t] = NoId) => queue = <<>>)
    /\ [][\A t \in Tasks :
            Dropping(t)
            => /\ Len(queue') = Len(queue) - 1
               /\ QueueIds(queue') = QueueIds(queue) \ {wid[t]}
               /\ \A k \in 1..Len(queue) :
                    queue[k].id # wid[t]
                    => \E j \in 1..Len(queue') : queue'[j] = queue[k]]_vars

\* Two waiters were registered, an event was received, and both guards are
\* dropped.
C6_Witness ==
    /\ next_id = 2 /\ nread >= 1
    /\ \A t \in Tasks : wid[t] = NoId
    /\ queue = <<>>

(* -------------------------------- C7 ----------------------------------- *)

\* C7: the event a waiter obtains from next() is a later transfer than the
\* one it obtained before, and so is the event waiting in its ready slot.
C7_TransportOrder ==
    /\ [](\A t \in Tasks :
            (HasWaiter(t) /\ WaiterOf(t).ready # NoGuard)
            => WaiterOf(t).ready > tlast[t])
    /\ [][\A t \in Tasks :
            Obtaining(t) => (tguard'[t] > tlast[t] /\ tguard'[t] <= nread)]_vars

\* A waiter has obtained the first transfer's event and then the second's.
C7_Witness ==
    \E t \in Tasks : HasWaiter(t) /\ tlast[t] = 2 /\ tguard[t] = 2 /\ nread = 2

(* -------------------------------- C8 ----------------------------------- *)

\* The callers of recv_event that are past the receive mutex.
PastMutex == {c \in Callers : cpc[c] \in {"locked", "receiving"}}

\* C8: while the write guard is held no view of the event exists; every view
\* that exists is of the last transfer; the buffer changes only while no view
\* exists; at most one recv_event is past the receive mutex, and it is the
\* holder of the mutex.
C8_ExclusiveBuffer ==
    /\ [](/\ writer => GuardCount = 0
          /\ readers = GuardCount
          /\ \A g \in GuardValues \ {NoGuard} : g = nread
          /\ Cardinality(PastMutex) <= 1
          /\ \A c \in Callers : c \in PastMutex <=> mutex = c)
    /\ [][<<xfer, evt, params, nread>>' # <<xfer, evt, params, nread>>
            => (GuardCount = 0 /\ Cardinality(PastMutex) = 1)]_vars

\* The receiver task is past the mutex, waiting for the write lock, while the
\* direct caller and a waiter's ready slot hold views of the current event.
C8_Witness ==
    /\ cpc["task"] = "locked"
    /\ cpc["host"] = "holding" /\ cguard["host"] = nread
    /\ ReadyGuards(queue) = 1
    /\ readers = 2

(* -------------------------------- C9 ----------------------------------- *)

\* The role byte of an LE connection event on the wire: after the subevent
\* code, the status and the connection handle.
WireRole(b) == IF Len(b) >= 7 THEN b[7] ELSE 0

\* C9: a recv_event that hands out an event fills the ready slot of exactly
\* the waiters whose filter the routing table gives for the event's type,
\* opcode and role: DisconnectionComplete and NumberOfCompletedPackets go to
\* ChanManager; CommandComplete and CommandStatus to Command(op), op the
\* event's opcode; LE ConnectionComplete and EnhancedConnectionComplete to
\* ChanManager and SecDb, and to AdvManager when the role is Peripheral;
\* LongTermKeyRequest to SecDb; AdvertisingSetTerminated to AdvManager; any
\* other event to no waiter.
C9_Routing ==
    [][Delivering =>
        LET RoutingTable(typ, op, role) ==
                IF typ \in {Hci(DisconnectionComplete), Hci(NumberOfCompletedPackets)}
                THEN {ChanManager}
                ELSE IF typ \in {Hci(CommandComplete), Hci(CommandStatus)}
                THEN {Command(op)}
                ELSE IF typ \in {LeConnectionComplete, LeEnhancedConnectionComplete}
                THEN {ChanManager, SecDb}
                        \cup (IF role = RolePeripheral THEN {AdvManager} ELSE {})
                ELSE IF typ = LeLongTermKeyRequest THEN {SecDb}
                ELSE IF typ = LeAdvertisingSetTerminated THEN {AdvManager}
                ELSE {}
        IN  \A k \in 1..Len(queue') :
                (queue'[k].ready = nread')
                <=> (queue'[k].filter
                        \in RoutingTable(evt'.typ, evt'.opcode, WireRole(xfer')))]_vars

\* An LE EnhancedConnectionComplete with role Central went to the security
\* database's waiter and not to the advertising manager's.
C9_Witness ==
    /\ cguard["task"] # NoGuard
    /\ evt.typ = LeEnhancedConnectionComplete /\ WireRole(xfer) = RoleCentral
    /\ HasWaiter("t1") /\ tfilter["t1"] = AdvManager /\ WaiterOf("t1").ready = NoGuard
    /\ HasWaiter("t2") /\ tfilter["t2"] = SecDb /\ WaiterOf("t2").ready = nread

(* -------------------------------- C10 ---------------------------------- *)

\* C10: once the token is cancelled, a task parked in next() gets a terminal
\* error from it, unless it drops its waiter first.
C10_WaitersTerminated ==
    \A t \in Tasks :
        (cancelled /\ tpc[t] = "parked")
            ~> (tres[t] = "UnspecifiedError" \/ wid[t] = NoId)

(* -------------------------------- C11 ---------------------------------- *)

\* The receiver task has ended on a transfer that failed.
TransportFailed == cpc["task"] = "failed" /\ xfer = <<>>

\* C11: once the receiver task has stopped on a failed transfer, a task
\* parked in next() gets an error from it, unless it drops its waiter first.
C11_FailureReachesWaiters ==
    \A t \in Tasks :
        (TransportFailed /\ tpc[t] = "parked")
            ~> (tres[t] = "UnspecifiedError" \/ wid[t] = NoId)

(* -------------------------------- C12 ---------------------------------- *)

\* This step completes a transfer whose bytes do not decode.
Undecodable == nread' = nread + 1 /\ xfer' # <<>> /\ ~TryFrom(xfer').ok

\* C12: after a transfer whose bytes do not decode the receiver task is
\* back at the start of its loop, ready to receive the next event.
C12_DecodeFailureSkipped == [][Undecodable => cpc'["task"] = "idle"]_vars

(* -------------------------------- C13 ---------------------------------- *)

\* This step ends the recv_event of caller c while it waits for the write
\* lock, otherwise than by its future being dropped on cancellation.
Stalling(c) == cpc[c] = "locked" /\ cpc'[c] \notin {"locked", "receiving", "done"}

\* C13 as stated: the stalled receive cycle is given up without reading an
\* event or altering the buffer, and its caller goes on to later cycles.
C13_Original ==
    [][\A c \in Callers :
        Stalling(c)
        => /\ cpc'[c] = "idle"
           /\ <<xfer, evt, params, nread>>' = <<xfer, evt, params, nread>>]_vars

\* C13: a recv_event that gives up waiting for the write lock does so only
\* while a read guard is held, by a panic that ends its caller for good; it
\* reads no event, leaves the buffer, the views and the waiters as they are
\* and releases the receive mutex, which a panicked caller never holds.
C13_Watchdog ==
    /\ [](\A c \in Callers : cpc[c] = "panicked" => mutex # c)
    /\ [][\A c \in Callers :
            /\ Stalling(c)
                => /\ readers > 0
                   /\ cpc'[c] = "panicked"
                   /\ mutex = c /\ mutex' = "none"
                   /\ UNCHANGED <<xfer, evt, params, nread, writer, readers, queue, cguard>>
            /\ cpc[c] = "panicked" => cpc'[c] = "panicked"]_vars

\* The receiver task has panicked on the watchdog, and the direct caller has
\* since taken the receive mutex and the write lock for a later cycle.
C13_Witness ==
    /\ cpc["task"] = "panicked"
    /\ cpc["host"] = "receiving" /\ writer /\ mutex = "host"

(* -------------------------------- C14 ---------------------------------- *)

\* The status and the opcode of a command event as they are on the wire: a
\* CommandComplete carries quota, opcode and then the return parameters, the
\* status first (none: Success); a CommandStatus carries status, quota, opcode.
WireStatus(b) ==
    IF b[1] = CommandStatus THEN b[3]
    ELSE IF Len(b) >= 6 THEN b[6] ELSE StatusSuccess
WireOpcode(b) ==
    IF b[1] = CommandStatus THEN b[5] + 256 * b[6] ELSE b[4] + 256 * b[5]

\* C14: for the event a recv_event caller holds, ok() gives Ok with the event
\* when it is a CommandComplete or CommandStatus with status Success,
\* CommandFailed with the event's opcode and status when it is one with any
\* other status, and NonCommandEvent with the event's type otherwise.
C14_OkResult ==
    \A c \in Callers :
        cguard[c] # NoGuard
        => IF xfer[1] \notin {CommandComplete, CommandStatus}
           THEN ok(evt) = [kind |-> "NonCommandEvent", typ |-> evt.typ]
           ELSE IF WireStatus(xfer) = StatusSuccess
           THEN ok(evt) = [kind |-> "Ok", evt |-> evt] /\ evt.typ = Hci(xfer[1])
           ELSE ok(evt) = [kind |-> "CommandFailed", opcode |-> WireOpcode(xfer),
                           status |-> WireStatus(xfer)]

\* The receiver task holds a CommandComplete of SetEventMask with status
\* CommandDisallowed.
C14_Witness ==
    /\ cguard["task"] # NoGuard
    /\ xfer[1] = CommandComplete /\ WireStatus(xfer) = 12
    /\ ok(evt).kind = "CommandFailed"

(* ============================ GATT schema ============================== *)
(* src/src/gatt/schema.rs: the attribute array sorted by handle, its lookup   *)
(* primitives, the group iterators and the access checks.  Indices are        *)
(* 0-based as in the source; attr[i + 1] is the attribute at index i.         *)

\* Largest handle of the attribute arrays looked up by handle.
MaxHandle == 5

\* Handle::MAX
HandleMax == 256 * 256 - 1

\* Attribute types: the declarations, two descriptors and two characteristic
\* value types (0x2A00, 0x2A01).
PRI == "PrimaryService"
SEC == "SecondaryService"
INC == "Include"
CHAR == "Characteristic"
EXT_PROPS == "CharacteristicExtendedProperties"
UserDescription == "CharacteristicUserDescription"
DeviceName == "DeviceName"
Appearance == "Appearance"

\* The value of an attribute that is no service or characteristic
\* declaration, as far as the schema operations read it.
NoValue == [props |-> {}, vhdl |-> 0, uuid |-> ""]

\* Attr: handle, 16-bit type, value, permissions.
Attr(hdl, typ, val, perms) == [hdl |-> hdl, typ |-> typ, val |-> val, perms |-> perms]

is_service(at) == at.typ \in {PRI, SEC}
is_primary_service(at) == at.typ = PRI
is_include(at) == at.typ = INC
is_char(at) == at.typ = CHAR
is_ext_props(at) == at.typ = EXT_PROPS

\* The result of a lookup: Ok(attribute at index idx) or Err(idx).
Found(i) == [ok |-> TRUE, idx |-> i]
Missing(i) == [ok |-> FALSE, idx |-> i]

\* slice::binary_search_by(|at| at.hdl.cmp(&hdl)) over a[left..right).
RECURSIVE binary_search(_, _, _, _)
binary_search(a, hdl, left, right) ==
    IF left >= right THEN Missing(left)
    ELSE LET mid == left + ((right - left) \div 2) IN
         IF a[mid + 1].hdl < hdl THEN binary_search(a, hdl, mid + 1, right)
         ELSE IF a[mid + 1].hdl > hdl THEN binary_search(a, hdl, left, mid)
         ELSE Found(mid)

\* A get that searches the prefix up to and including the expected index.
get_PrefixInclusive(a, hdl) ==
    LET i == hdl - 1 IN
    IF i < Len(a)
    THEN IF a[i + 1].hdl = hdl THEN Found(i) ELSE binary_search(a, hdl, 0, i + 1)
    ELSE binary_search(a, hdl, 0, Len(a) - 1)

\* CommonOps::get: the attribute with handle hdl is at index hdl - 1 or, with
\* gaps, before it.
get(a, hdl) ==
    LET i == hdl - 1 IN
    IF i < Len(a)
    THEN IF a[i + 1].hdl = hdl THEN Found(i) ELSE binary_search(a, hdl, 0, i)
    ELSE binary_search(a, hdl, 0, Len(a))

\* The bounds i..j Schema::subset computes for the range start..=end, or
\* None.
SubsetBounds(a, start, end) ==
    LET gi == get(a, start)
        gj == get(a, end)
        i == IF gi.ok THEN gi.idx ELSE IF gi.idx < Len(a) THEN gi.idx ELSE -1
        j == IF gj.ok THEN gj.idx + 1 ELSE IF gj.idx > 0 THEN gj.idx ELSE -1
    IN  IF i = -1 \/ j = -1 THEN [some |-> FALSE, i |-> 0, j |-> 0]
        ELSE [some |-> TRUE, i |-> i, j |-> j]

\* Schema::subset with Subset::new as a release build compiles it: the
\* attributes at the indices i..j, none when the range is empty.
subset(a, start, end) ==
    LET b == SubsetBounds(a, start, end) IN
    IF ~b.some THEN [kind |-> "None", off |-> 0, attr |-> <<>>]
    ELSE [kind |-> "Some", off |-> b.i, attr |-> SubSeq(a, b.i + 1, b.j)]

\* What subset returns in a build: Subset::new's debug_assert panics on an
\* empty range when debug assertions are compiled in.
SubsetIn(build, a, start, end) ==
    LET b == SubsetBounds(a, start, end) IN
    IF b.some /\ b.i >= b.j /\ build = "debug"
    THEN [kind |-> "panic", off |-> 0, attr |-> <<>>]
    ELSE subset(a, start, end)

Builds == {"debug", "release"}

(* --------------------- lookups in arrays with gaps --------------------- *)

\* A plain attribute with handle h.
PlainAttr(h) == Attr(h, UserDescription, NoValue, "open")

\* The attribute array with the handles of the set hs, in increasing order.
RECURSIVE ArrayOf(_)
ArrayOf(hs) ==
    IF hs = {} THEN <<>>
    ELSE LET m == CHOOSE x \in hs : \A y \in hs : y <= x
         IN  Append(ArrayOf(hs \ {m}), PlainAttr(m))

\* Every attribute array with strictly increasing handles in 1..MaxHandle.
GappedArrays == {ArrayOf(hs) : hs \in SUBSET (1..MaxHandle)}

\* The handles looked up: those of the arrays, one beyond, and Handle::MAX.
LookupHandles == (1..(MaxHandle + 1)) \cup {HandleMax}

IndexInit ==
    /\ HostInit
    /\ attr \in GappedArrays
    /\ call = NoCall
    /\ it = 0
    /\ result = <<>>

\* get(hdl) is called.
Get(hdl) ==
    /\ call' = [NoCall EXCEPT !.op = "get", !.start = hdl]
    /\ result' = get(attr, hdl)
    /\ UNCHANGED <<attr, it, hostVars>>

\* subset(start..=end) is called in a debug or a release build.
Subset(build, start, end) ==
    /\ start <= end
    /\ call' = [NoCall EXCEPT !.op = "subset", !.start = start, !.end = end]
    /\ result' = SubsetIn(build, attr, start, end)
    /\ UNCHANGED <<attr, it, hostVars>>

IndexNext ==
    \/ \E hdl \in LookupHandles : Get(hdl)
    \/ \E build \in Builds, start, end \in LookupHandles : Subset(build, start, end)

SpecIndex == IndexInit /\ [][IndexNext]_vars

(* -------------------------------- C15 ---------------------------------- *)

\* The handles of the attributes of a.
Handles(a) == {a[k].hdl : k \in 1..Len(a)}

\* C15: get(h) returns Ok(a) exactly when an attribute with handle h exists,
\* and then a.handle = h; otherwise it returns Err(i) with 0 <= i <= len, i
\* the index at which h keeps the array sorted: every attribute before i has
\* a smaller handle and every attribute from i on a larger one.
C15_Get ==
    call.op = "get"
    => LET h == call.start IN
       /\ result.ok <=> h \in Handles(attr)
       /\ result.ok => (result.idx < Len(attr) /\ attr[result.idx + 1].hdl = h)
       /\ ~result.ok =>
            /\ 0 <= result.idx /\ result.idx <= Len(attr)
            /\ \A k \in 1..Len(attr) :
                IF k <= result.idx THEN attr[k].hdl < h ELSE attr[k].hdl > h

\* A handle in a gap was looked up: it is past its expected index and the
\* insertion index lies inside the array.
C15_Witness ==
    /\ call.op = "get" /\ ~result.ok
    /\ Len(attr) = 3 /\ attr[3].hdl = 5
    /\ call.start = 3 /\ result.idx = 2

(* -------------------------------- C16 ---------------------------------- *)

\* C16: subset(start..=end) returns None when no attribute handle lies in
\* start..end, and otherwise the attributes with start <= handle <= end, off
\* being the index of the first; a returned Subset is never empty.
C16_Subset ==
    call.op = "subset"
    => LET inRange == {k \in 1..Len(attr) :
                            call.start <= attr[k].hdl /\ attr[k].hdl <= call.end}
       IN  IF inRange = {} THEN result.kind = "None"
           ELSE /\ result.kind = "Some"
                /\ result.attr # <<>>
                /\ result.off + 1 = CHOOSE k \in inRange : \A x \in inRange : k <= x
                /\ {result.attr[k] : k \in 1..Len(result.attr)}
                        = {attr[k] : k \in inRange}

(* ------------------------- groups and iterators ------------------------ *)

\* Group::is_next_group of ServiceDef ("service") and of CharacteristicDef
\* ("characteristic") with the secondary services left inside a group.
is_next_group_PrimaryOnly(group, typ) ==
    IF group = "service" THEN typ = PRI
    ELSE typ \in {PRI, SEC, INC, CHAR}

\* Group::is_next_group of ServiceDef ("service") and of CharacteristicDef
\* ("characteristic"): whether an attribute of type typ is past the group.
is_next_group(group, typ) ==
    IF group = "service" THEN typ \in {PRI, SEC}
    ELSE typ \in {PRI, SEC, INC, CHAR}

\* value_handle: the handle in the value of a characteristic declaration.
value_handle(v) == IF v.vhdl = 0 THEN HandleMax ELSE v.vhdl

\* The closure primary_services gives GroupIter as is_start; uuid "" is None.
is_start(uuid, at) == is_primary_service(at) /\ (uuid = "" \/ at.val.uuid = uuid)

\* The index of the last attribute GroupIter::next consumes for the
\* declaration at index d: it goes on while the next attribute is in the group.
RECURSIVE GroupLast(_, _, _)
GroupLast(a, group, e) ==
    IF e + 1 < Len(a) /\ ~is_next_group(group, a[e + 2].typ)
    THEN GroupLast(a, group, e + 1)
    ELSE e

\* A descriptors that does not look for declarations inside the range.
descriptors_AnyRange(a, start, end) ==
    LET s == subset(a, start, end)
        decls == {k \in 0..(s.off - 1) : is_char(a[k + 1])}
    IN  IF s.kind # "Some" \/ s.attr = <<>> \/ decls = {} THEN <<>>
        ELSE LET d == CHOOSE k \in decls : \A x \in decls : x <= k
             IN  IF value_handle(a[d + 1].val) < s.attr[1].hdl
                 THEN [k \in 1..Len(s.attr) |-> s.attr[k].hdl]
                 ELSE <<>>

\* Schema::descriptors: the handles of the entries it yields.  (A Subset is
\* empty only for a range inside a handle gap; first() is then not defined.)
descriptors(a, start, end) ==
    LET s == subset(a, start, end)
        decls == {k \in 0..(s.off - 1) : is_char(a[k + 1])}
    IN  IF s.kind # "Some" \/ s.attr = <<>> \/ decls = {} THEN <<>>
        ELSE LET d == CHOOSE k \in decls : \A x \in decls : x <= k
             IN  IF /\ value_handle(a[d + 1].val) < s.attr[1].hdl
                    /\ ~\E k \in 1..Len(s.attr) :
                            is_next_group("characteristic", s.attr[k].typ)
                 THEN [k \in 1..Len(s.attr) |-> s.attr[k].hdl]
                 ELSE <<>>

(* ---------------------------- access checks ---------------------------- *)

\* Request: the opcode and the access it asks for.
Request(op, typ, authn) == [op |-> op, ac |-> [typ |-> typ, authn |-> authn]]

\* Perms::test: the error of the permission check, "" when it passes.
PermsTest(perms, ac) ==
    IF ac.authn THEN ""
    ELSE CASE perms = "encrypt" -> "InsufficientEncryption"
           [] perms = "authn" -> "InsufficientAuthentication"
           [] perms = "authz" -> "InsufficientAuthorization"
           [] perms = "keysize" -> "InsufficientEncryptionKeySize"
           [] OTHER -> ""

\* An error response that does not carry the opcode of the request.
hdl_err_NoOpcode(op, e, hdl) == [ok |-> FALSE, err |-> e, hdl |-> hdl, op |-> ""]

\* RspResult<Handle>: Ok(hdl), or the error response of opcode op for hdl.
Allowed(hdl) == [ok |-> TRUE, err |-> "", hdl |-> hdl, op |-> ""]
hdl_err(op, e, hdl) == [ok |-> FALSE, err |-> e, hdl |-> hdl, op |-> op]

\* A characteristic_for_attr that reads the Extended Properties descriptor
\* whether or not the EXT_PROPS bit is set.
characteristic_for_attr_AnyExtProps(a, i) ==
    LET none == [some |-> FALSE, props |-> {}, ext_props |-> {}, val |-> 0]
        decls == {k \in 0..i : is_char(a[k + 1])}
    IN  IF decls = {} THEN none
        ELSE LET decl == CHOOSE k \in decls : \A x \in decls : x <= k
                 nexts == {k \in (decl + 1)..(Len(a) - 1) :
                                is_next_group("characteristic", a[k + 1].typ)}
                 end == IF nexts = {} THEN Len(a)
                        ELSE CHOOSE k \in nexts : \A x \in nexts : k <= x
                 v == a[decl + 1].val
                 vals == {k \in (decl + 1)..(end - 1) : a[k + 1].hdl = value_handle(v)}
             IN  IF end <= i \/ vals = {} THEN none
                 ELSE LET val == CHOOSE k \in vals : \A x \in vals : k <= x
                          exts == {k \in (val + 1)..(end - 1) : is_ext_props(a[k + 1])}
                      IN  [some |-> TRUE,
                           props |-> v.props,
                           ext_props |->
                               IF exts # {}
                               THEN a[(CHOOSE k \in exts : \A x \in exts : k <= x) + 1].val.props
                               ELSE {},
                           val |-> val]

\* Schema::characteristic_for_attr, of the attribute at index i.
characteristic_for_attr(a, i) ==
    LET none == [some |-> FALSE, props |-> {}, ext_props |-> {}, val |-> 0]
        decls == {k \in 0..i : is_char(a[k + 1])}
    IN  IF decls = {} THEN none
        ELSE LET decl == CHOOSE k \in decls : \A x \in decls : x <= k
                 nexts == {k \in (decl + 1)..(Len(a) - 1) :
                                is_next_group("characteristic", a[k + 1].typ)}
                 end == IF nexts = {} THEN Len(a)
                        ELSE CHOOSE k \in nexts : \A x \in nexts : k <= x
                 v == a[decl + 1].val
                 vals == {k \in (decl + 1)..(end - 1) : a[k + 1].hdl = value_handle(v)}
             IN  IF end <= i \/ vals = {} THEN none
                 ELSE LET val == CHOOSE k \in vals : \A x \in vals : k <= x
                          exts == {k \in (val + 1)..(end - 1) : is_ext_props(a[k + 1])}
                      IN  [some |-> TRUE,
                           props |-> v.props,
                           ext_props |->
                               IF "EXT_PROPS" \in v.props /\ exts # {}
                               THEN a[(CHOOSE k \in exts : \A x \in exts : k <= x) + 1].val.props
                               ELSE {},
                           val |-> val]

\* A table in which a signed write needs the WRITE bit.
PropBit_SignedAsWrite(op) ==
    IF op \in {"ReadReq", "ReadByTypeReq", "ReadBlobReq", "ReadMultipleReq",
               "ReadMultipleVariableReq"} THEN "READ"
    ELSE IF op = "WriteCmd" THEN "WRITE_CMD"
    ELSE IF op \in {"WriteReq", "PrepareWriteReq"} THEN "WRITE"
    ELSE IF op = "SignedWriteCmd" THEN "WRITE"
    ELSE ""

\* The property bit an opcode needs, "" for an opcode that is no read or write.
PropBit(op) ==
    IF op \in {"ReadReq", "ReadByTypeReq", "ReadBlobReq", "ReadMultipleReq",
               "ReadMultipleVariableReq"} THEN "READ"
    ELSE IF op = "WriteCmd" THEN "WRITE_CMD"
    ELSE IF op \in {"WriteReq", "PrepareWriteReq"} THEN "WRITE"
    ELSE IF op = "SignedWriteCmd" THEN "SIGNED_WRITE_CMD"
    ELSE ""

\* An access_check that tests the properties before the permissions.
access_check_PropsFirst(a, req, i) ==
    LET at == a[i + 1]
        e == PermsTest(at.perms, req.ac)
        ch == characteristic_for_attr(a, i)
        denied == IF e # "" THEN hdl_err(req.op, e, at.hdl) ELSE Allowed(at.hdl)
    IN  IF ~ch.some THEN denied
        ELSE IF at.hdl # a[ch.val + 1].hdl
        THEN IF /\ req.ac.typ = "WRITE"
                /\ at.typ = UserDescription
                /\ "WRITABLE_AUX" \notin ch.ext_props
             THEN hdl_err(req.op, "WriteNotPermitted", at.hdl)
             ELSE denied
        ELSE IF PropBit(req.op) = "" THEN hdl_err(req.op, "RequestNotSupported", at.hdl)
        ELSE IF PropBit(req.op) \notin ch.props
        THEN hdl_err(req.op, IF req.ac.typ = "READ" THEN "ReadNotPermitted"
                             ELSE "WriteNotPermitted", at.hdl)
        ELSE denied

\* Schema::access_check, of the attribute at index i.
access_check(a, req, i) ==
    LET at == a[i + 1]
        e == PermsTest(at.perms, req.ac)
        ch == characteristic_for_attr(a, i)
    IN  IF e # "" THEN hdl_err(req.op, e, at.hdl)
        ELSE IF ~ch.some THEN Allowed(at.hdl)
        ELSE IF at.hdl # a[ch.val + 1].hdl
        THEN IF /\ req.ac.typ = "WRITE"
                /\ at.typ = UserDescription
                /\ "WRITABLE_AUX" \notin ch.ext_props
             THEN hdl_err(req.op, "WriteNotPermitted", at.hdl)
             ELSE Allowed(at.hdl)
        ELSE IF PropBit(req.op) = "" THEN hdl_err(req.op, "RequestNotSupported", at.hdl)
        ELSE IF PropBit(req.op) \notin ch.props
        THEN hdl_err(req.op, IF req.ac.typ = "READ" THEN "ReadNotPermitted"
                             ELSE "WriteNotPermitted", at.hdl)
        ELSE Allowed(at.hdl)

\* A collection that skips the failed checks (filter_map in place of
\* map_while).
RECURSIVE map_while_ok_Skip(_)
map_while_ok_Skip(rs) ==
    IF rs = <<>> THEN <<>>
    ELSE IF rs[1].ok THEN <<rs[1].hdl>> \o map_while_ok_Skip(Tail(rs))
    ELSE map_while_ok_Skip(Tail(rs))

\* Iterator::map_while(Result::ok): the handles of the leading Ok results.
RECURSIVE map_while_ok(_)
map_while_ok(rs) ==
    IF rs = <<>> \/ ~rs[1].ok THEN <<>>
    ELSE <<rs[1].hdl>> \o map_while_ok(Tail(rs))

\* Access checks of every attribute at the indices off..off+n-1, of any type.
RECURSIVE RangeChecks_AnyType(_, _, _, _, _)
RangeChecks_AnyType(a, req, uuid, off, n) ==
    IF n = 0 THEN <<>>
    ELSE <<access_check(a, req, off)>> \o RangeChecks_AnyType(a, req, uuid, off + 1, n - 1)

\* The access checks of the attributes at the indices off..off+n-1 whose type
\* is uuid, in order.
RECURSIVE RangeChecks(_, _, _, _, _)
RangeChecks(a, req, uuid, off, n) ==
    IF n = 0 THEN <<>>
    ELSE (IF a[off + 1].typ = uuid THEN <<access_check(a, req, off)>> ELSE <<>>)
            \o RangeChecks(a, req, uuid, off + 1, n - 1)

\* Schema::try_range_access: Ok(handles) or the error response.
try_range_access(a, req, start, end, uuid) ==
    LET s == subset(a, start, end)
        rs == IF s.kind = "Some" THEN RangeChecks(a, req, uuid, s.off, Len(s.attr))
              ELSE <<>>
    IN  IF rs = <<>> THEN [ok |-> FALSE, err |-> "AttributeNotFound", hdl |-> start,
                           op |-> req.op, hdls |-> <<>>]
        ELSE IF ~rs[1].ok THEN [ok |-> FALSE, err |-> rs[1].err, hdl |-> rs[1].hdl,
                                op |-> rs[1].op, hdls |-> <<>>]
        ELSE [ok |-> TRUE, err |-> "", hdl |-> 0, op |-> "", hdls |-> map_while_ok(rs)]

(* ----------------------------- built schemas ---------------------------- *)

\* The longest schema the builder is asked for.
MaxAttrs == 5

GenericAccess == "GenericAccess"
Battery == "Battery"

\* Perms of an attribute: readable by anyone, or only over an authenticated
\* link.
Open == "open"
Authn == "authn"

ServiceValue(uuid) == [props |-> {}, vhdl |-> 0, uuid |-> uuid]
CharValue(props, vhdl) == [props |-> props, vhdl |-> vhdl, uuid |-> ""]

\* Builder: what one more declaration appends to the schema s, with the next
\* sequential handles.  An include needs a service with no characteristic
\* yet, a characteristic a service, a descriptor a characteristic.
Declare(s) ==
    LET h == Len(s) + 1
        last == IF s = <<>> THEN "" ELSE s[Len(s)].typ
    IN  {Append(s, Attr(h, sv[1], ServiceValue(sv[2]), Open)) :
            sv \in IF s = <<>> \/ last \notin {PRI, SEC}
                   THEN {<<PRI, GenericAccess>>, <<PRI, Battery>>, <<SEC, Battery>>}
                   ELSE {}}
        \cup {Append(s, Attr(h, INC, NoValue, Open)) :
                x \in IF last \in {PRI, SEC, INC} THEN {0} ELSE {}}
        \cup {s \o <<Attr(h, CHAR, CharValue(pp[1], h + 1), Open),
                     Attr(h + 1, DeviceName, NoValue, pp[2])>> :
                pp \in IF s # <<>> /\ h + 1 <= MaxAttrs
                       THEN {{"READ"}, {"WRITE"}} \X {Open, Authn}
                       ELSE {}}
        \cup {Append(s, Attr(h, UserDescription, NoValue, Open)) :
                x \in IF last \in {DeviceName, UserDescription} THEN {0} ELSE {}}

\* The schemas of at most MaxAttrs attributes after at most n declarations.
RECURSIVE Declared(_)
Declared(n) ==
    IF n = 0 THEN {<<>>}
    ELSE LET D == Declared(n - 1)
         IN  D \cup {t \in UNION {Declare(s) : s \in D} : Len(t) <= MaxAttrs}

\* Builder::freeze: a schema with an empty service group is SchemaInvalid.
BuiltSchemas == {s \in Declared(MaxAttrs) : s = <<>> \/ ~is_service(s[Len(s)])}

\* A service of five DeviceName (0x2A00) characteristics; the values of the
\* characteristics in authn require authentication.
RECURSIVE FiveChars(_, _)
FiveChars(n, authn) ==
    IF n = 0 THEN <<Attr(1, PRI, ServiceValue(GenericAccess), Open)>>
    ELSE FiveChars(n - 1, authn)
            \o <<Attr(2 * n, CHAR, CharValue({"READ"}, 2 * n + 1), Open),
                 Attr(2 * n + 1, DeviceName, NoValue,
                      IF n \in authn THEN Authn ELSE Open)>>

S5 == FiveChars(5, {2, 4})
S5FirstDenied == FiveChars(5, {1, 2, 4})

\* The requests of the read-by-type procedure, without and with
\* authentication.
Requests == {Request("ReadByTypeReq", "READ", authn) : authn \in BOOLEAN}

\* The handles iteration and range operations are asked about.
SchemaHandles == (1..(MaxAttrs + 1)) \cup {HandleMax}

SchemaInit ==
    /\ HostInit
    /\ attr \in BuiltSchemas \cup {S5, S5FirstDenied}
    /\ call = NoCall
    /\ it = 0
    /\ result = <<>>

\* Schema::primary_services: the iterator is positioned at the index of start.
PrimaryServices(start, uuid) ==
    /\ call.op = "none"
    /\ call' = [NoCall EXCEPT !.op = "primary_services", !.start = start,
                              !.uuid = uuid, !.state = "iterating"]
    /\ it' = get(attr, start).idx
    /\ result' = <<>>
    /\ UNCHANGED <<attr, hostVars>>

\* GroupIter::next of the iterator primary_services returned: the entry found
\* is appended to result; None ends the iteration.
GroupIterNext ==
    /\ call.op = "primary_services"
    /\ call.state = "iterating"
    /\ LET starts == {k \in it..(Len(attr) - 1) : is_start(call.uuid, attr[k + 1])}
       IN  IF starts = {}
           THEN /\ it' = Len(attr)
                /\ call' = [call EXCEPT !.state = "done"]
                /\ result' = result
           ELSE LET decl == CHOOSE k \in starts : \A x \in starts : k <= x
                    last == GroupLast(attr, "service", decl)
                IN  /\ it' = last + 1
                    /\ result' = Append(result, [hdl |-> attr[decl + 1].hdl,
                                                  end |-> attr[last + 1].hdl])
                    /\ call' = call
    /\ UNCHANGED <<attr, hostVars>>

\* Schema::descriptors, collected.
Descriptors(start, end) ==
    /\ call.op = "none"
    /\ start <= end
    /\ call' = [NoCall EXCEPT !.op = "descriptors", !.start = start, !.end = end]
    /\ result' = descriptors(attr, start, end)
    /\ UNCHANGED <<attr, it, hostVars>>

\* Schema::try_range_access.
TryRangeAccess(req, start, end, uuid) ==
    /\ call.op = "none"
    /\ start <= end
    /\ call' = [NoCall EXCEPT !.op = "try_range_access", !.start = start,
                              !.end = end, !.uuid = uuid, !.req = req]
    /\ result' = try_range_access(attr, req, start, end, uuid)
    /\ UNCHANGED <<attr, it, hostVars>>

\* The caller drops the iterator or the result; the schema is as it was.
Return ==
    /\ call.op # "none"
    /\ call' = NoCall
    /\ it' = 0
    /\ result' = <<>>
    /\ UNCHANGED <<attr, hostVars>>

SchemaNext ==
    \/ \E start \in {1, 3}, uuid \in {"", GenericAccess, Battery} :
            PrimaryServices(start, uuid)
    \/ GroupIterNext
    \/ \E start, end \in SchemaHandles : Descriptors(start, end)
    \/ \E req \in Requests, start, end \in SchemaHandles,
          uuid \in {DeviceName, UserDescription} :
            TryRangeAccess(req, start, end, uuid)
    \/ Return

SpecSchema == SchemaInit /\ [][SchemaNext]_vars

(* ------------------------------------------------------------------------ *)
(* Claims about iteration and range access over built schemas               *)
(* ------------------------------------------------------------------------ *)

\* The smallest element of a non-empty set of numbers.
Least(S) == CHOOSE k \in S : \A x \in S : k <= x

\* The 1-based positions of the declarations that end a group of the
\* attribute at position k.
GroupBreaks(group, k) ==
    {j \in (k + 1)..Len(attr) :
        attr[j].typ \in (IF group = "service" THEN {PRI, SEC} ELSE {PRI, SEC, INC, CHAR})}

\* The handle of the last attribute of the group declared at position k.
GroupEnd(group, k) ==
    IF GroupBreaks(group, k) = {} THEN attr[Len(attr)].hdl
    ELSE attr[Least(GroupBreaks(group, k)) - 1].hdl

\* The positions of the primary services an iteration from call.start with
\* call.uuid is about.
WantedServices ==
    {k \in 1..Len(attr) :
        /\ attr[k].hdl >= call.start
        /\ attr[k].typ = PRI
        /\ (call.uuid = "" \/ attr[k].val.uuid = call.uuid)}

\* C17: primary_services(start, uuid), run to its end, has yielded exactly the
\* primary service declarations from start on whose value is uuid, in
\* increasing handle order; each range starts at the declaration and ends at
\* the last attribute before the next primary or secondary service (or the
\* last attribute of the schema), the ranges do not overlap, and every call of
\* next either ends the iteration or moves the iterator forward inside the
\* schema, so that it ends after finitely many calls.
C17_PrimaryServices ==
    /\ [](call.op = "primary_services" =>
            /\ it <= Len(attr)
            /\ \A n \in 1..Len(result) :
                \E k \in WantedServices :
                    /\ result[n].hdl = attr[k].hdl
                    /\ result[n].end = GroupEnd("service", k)
                    /\ n = Cardinality({j \in WantedServices : j <= k})
            /\ \A n \in 1..(Len(result) - 1) : result[n].end < result[n + 1].hdl
            /\ call.state = "done" => Len(result) = Cardinality(WantedServices))
    /\ [][call.op = "primary_services" /\ call'.op = "primary_services" =>
            /\ Len(result') >= Len(result)
            /\ call'.state = "done" \/ it' > it]_vars

C17_Witness ==
    /\ call.op = "primary_services"
    /\ call.state = "done"
    /\ call.start = 1
    /\ call.uuid = GenericAccess
    /\ Len(result) = 2
    /\ result[1].end > result[1].hdl

\* The positions of the characteristic declarations.
Chars == {k \in 1..Len(attr) : is_char(attr[k])}

\* The range of handles after the value of the characteristic at position c,
\* up to the end of its group.
Inside(c) == (value_handle(attr[c].val) + 1)..GroupEnd("characteristic", c)

\* The positions of the characteristic declarations before the range asked for.
Preceding == {k \in Chars : attr[k].hdl < call.start}

\* C18: descriptors(c.value_handle+1 ..= c.group_end) yields the attributes
\* strictly inside the characteristic c and no other; descriptors of a range
\* that starts at or before the value handle of the nearest preceding
\* characteristic declaration, or that holds a service, include or
\* characteristic declaration, yields nothing.
C18_Descriptors ==
    call.op = "descriptors" =>
        /\ \A c \in Chars :
            (call.start = value_handle(attr[c].val) + 1
                /\ call.end = GroupEnd("characteristic", c)) =>
                /\ \A n \in 1..Len(result) :
                    /\ result[n] \in Inside(c)
                    /\ \E k \in 1..Len(attr) :
                        /\ attr[k].hdl = result[n]
                        /\ attr[k].typ \notin {PRI, SEC, INC, CHAR}
                /\ \A h \in Inside(c) : \E n \in 1..Len(result) : result[n] = h
        /\ (\/ /\ Preceding # {}
               /\ call.start <= value_handle(attr[-Least({-k : k \in Preceding})].val)
            \/ \E k \in 1..Len(attr) :
                /\ attr[k].hdl \in call.start..call.end
                /\ attr[k].typ \in {PRI, SEC, INC, CHAR}) =>
                result = <<>>

C18_Witness ==
    /\ call.op = "descriptors"
    /\ \E c \in Chars :
        /\ call.start = value_handle(attr[c].val) + 1
        /\ call.end = GroupEnd("characteristic", c)
    /\ Len(result) = 2

\* The positions of the attributes in the range asked for whose type is the
\* one asked for, and those of them whose access check fails.
InRange ==
    {k \in 1..Len(attr) :
        attr[k].hdl \in call.start..call.end /\ attr[k].typ = call.uuid}
Denied == {k \in InRange : ~access_check(attr, call.req, k - 1).ok}

\* The attributes before the first one whose access check fails.
LeadingRun == {k \in InRange : \A d \in Denied : k < d}

\* C19: try_range_access answers AttributeNotFound on range.start when no
\* attribute in the range has the type; the error of the first such
\* attribute's access check when that fails (InsufficientAuthentication on its
\* handle when it requires authentication and the request has none); and
\* otherwise the handles, in order, of exactly the attributes before the
\* first failed check.
C19_RangeAccess ==
    call.op = "try_range_access" =>
        IF InRange = {}
        THEN ~result.ok /\ result.err = "AttributeNotFound" /\ result.hdl = call.start
        ELSE LET first == Least(InRange)
                 r == access_check(attr, call.req, first - 1)
             IN  IF first \in Denied
                 THEN /\ ~result.ok
                      /\ result.err = r.err
                      /\ result.hdl = attr[first].hdl
                      /\ (attr[first].perms = Authn /\ ~call.req.ac.authn) =>
                            result.err = "InsufficientAuthentication"
                 ELSE /\ result.ok
                      /\ Len(result.hdls) = Cardinality(LeadingRun)
                      /\ \A n \in 1..Len(result.hdls) :
                            \E k \in LeadingRun :
                                /\ result.hdls[n] = attr[k].hdl
                                /\ n = Cardinality({j \in LeadingRun : j <= k})

C19_Witness ==
    /\ call.op = "try_range_access"
    /\ Len(attr) = 5
    /\ attr[5].perms = Authn
    /\ 5 \in InRange
    /\ ~call.req.ac.authn
    /\ result.ok
    /\ result.hdls = <<3>>

\* The read-by-type request of the scenario: all handles, type 0x2A00, no
\* authentication, on the schema of five characteristics of which the 2nd
\* and 4th require authentication.
S5Call ==
    /\ attr = S5
    /\ call.op = "try_range_access"
    /\ call.start = 1
    /\ call.end = HandleMax
    /\ call.uuid = DeviceName
    /\ ~call.req.ac.authn

\* The handle of the value of the n-th characteristic of S5.
S5Value(n) == 2 * n + 1

\* C20 as stated: the request returns the handles of characteristics 1, 3, 5.
C20_Original ==
    S5Call => result.ok /\ result.hdls = <<S5Value(1), S5Value(3), S5Value(5)>>

\* C20: the request returns the handle of characteristic 1 alone, the run of
\* successful checks before the first failed one (characteristic 2).
C20_LeadingRun ==
    S5Call => result.ok /\ result.hdls = <<S5Value(1)>>

C20_Witness == S5Call /\ result.ok /\ Len(result.hdls) = 1

(* ------------------------------------------------------------------------ *)
(* Access checks of single attributes                                       *)
(* ------------------------------------------------------------------------ *)

\* The most include declarations of the secondary service that may follow
\* the characteristic under test.
MaxTail == 1

\* Prop bits of a characteristic declaration and the ExtProp bit that is read.
AllProps == {"READ", "WRITE_CMD", "WRITE", "SIGNED_WRITE_CMD", "EXT_PROPS"}
WRITABLE_AUX == "WRITABLE_AUX"

\* Opcodes of requests that read, that write, and two that do neither.
ReadOps ==
    {"ReadReq", "ReadByTypeReq", "ReadBlobReq", "ReadMultipleReq",
     "ReadMultipleVariableReq"}
WriteOps == {"WriteCmd", "WriteReq", "PrepareWriteReq", "SignedWriteCmd"}
OtherOps == {"FindInformationReq", "ReadByGroupTypeReq"}

\* The requests the server builds: the access mode follows from the opcode
\* for reads and writes; for the other opcodes either mode is taken.
AccessRequests ==
    {Request(op, "READ", authn) : op \in ReadOps \cup OtherOps, authn \in BOOLEAN}
        \cup {Request(op, "WRITE", authn) : op \in WriteOps \cup OtherOps,
                                           authn \in BOOLEAN}

\* A declaration or descriptor before handles are assigned.
Decl(typ, props, uuid, perms) ==
    [typ |-> typ, val |-> [props |-> props, vhdl |-> 0, uuid |-> uuid], perms |-> perms]

\* Builder: sequential handles from 1; a characteristic declaration names the
\* next handle as that of its value.
Numbered(ds) ==
    [k \in 1..Len(ds) |->
        Attr(k, ds[k].typ,
             IF ds[k].typ = CHAR THEN CharValue(ds[k].val.props, k + 1) ELSE ds[k].val,
             ds[k].perms)]

\* n include declarations.
RECURSIVE Includes(_)
Includes(n) ==
    IF n = 0 THEN <<>> ELSE Append(Includes(n - 1), Decl(INC, {}, "", Open))

\* What may follow the characteristic under test: nothing, another
\* characteristic, or a secondary service of includes.
Tails ==
    {<<>>, <<Decl(CHAR, {"READ"}, "", Open), Decl(DeviceName, {}, "", Open)>>}
        \cup {<<Decl(SEC, {}, Battery, Open)>> \o Includes(n) : n \in 1..MaxTail}

\* The descriptors of the characteristic under test: an Extended Properties
\* descriptor (always there when the EXT_PROPS bit is set) with or without
\* WRITABLE_AUX, and a User Description descriptor or none.
ExtDescriptors(props) ==
    {<<Decl(EXT_PROPS, {WRITABLE_AUX}, "", Open)>>}
        \cup (IF "EXT_PROPS" \in props THEN {<<Decl(EXT_PROPS, {}, "", Open)>>}
              ELSE {<<>>})
UserDescriptors == {<<>>, <<Decl(UserDescription, {}, "", Open)>>}

\* A primary service with one characteristic of any properties, whose value
\* is open or requires authentication, its descriptors, and a tail.
AccessSchemas ==
    UNION {{Numbered(<<Decl(PRI, {}, GenericAccess, Open),
                       Decl(CHAR, props, "", Open),
                       Decl(DeviceName, {}, "", perms)>> \o ext \o ud \o tail) :
                perms \in {Open, Authn}, ext \in ExtDescriptors(props),
                ud \in UserDescriptors, tail \in Tails} :
            props \in SUBSET AllProps}

\* Opcode::err: the error response of opcode op that names no handle.
err(op, e) == hdl_err(op, e, 0)

\* RspResult<T> of try_multi_access: Ok(hdls).
AllowedAll(hdls) == [ok |-> TRUE, err |-> "", hdl |-> 0, op |-> "", hdls |-> hdls]

\* The loop of try_multi_access over the handles v that are left: the first
\* handle without an attribute or with a failing access check ends it.
RECURSIVE multi_loop(_, _, _)
multi_loop(a, req, v) ==
    IF v = <<>> THEN Allowed(0)
    ELSE LET r == get(a, v[1]) IN
         IF ~r.ok THEN hdl_err(req.op, "InvalidHandle", v[1])
         ELSE LET c == access_check(a, req, r.idx) IN
              IF ~c.ok THEN c ELSE multi_loop(a, req, Tail(v))

\* A try_multi_access that looks up every handle before it checks any.
try_multi_access_LookupFirst(a, req, hdls) ==
    LET bad == {j \in 1..Len(hdls) : ~get(a, hdls[j]).ok} IN
    IF hdls = <<>> THEN err(req.op, "InvalidPdu")
    ELSE IF bad # {}
    THEN hdl_err(req.op, "InvalidHandle",
                 hdls[CHOOSE j \in bad : \A x \in bad : j <= x])
    ELSE LET r == multi_loop(a, req, hdls)
         IN  IF r.ok THEN AllowedAll(hdls) ELSE r

\* Schema::try_multi_access
try_multi_access(a, req, hdls) ==
    IF hdls = <<>> THEN err(req.op, "InvalidPdu")
    ELSE LET r == multi_loop(a, req, hdls)
         IN  IF r.ok THEN AllowedAll(hdls) ELSE r

\* Schema::try_access: try_multi_access of the one handle, Ok mapped to the
\* handle.
try_access(a, req, hdl) ==
    LET r == try_multi_access(a, req, <<hdl>>)
    IN  IF r.ok THEN Allowed(hdl) ELSE r

AccessInit ==
    /\ HostInit
    /\ attr \in AccessSchemas
    /\ call = NoCall
    /\ it = 0
    /\ result = <<>>

\* Schema::try_access, for a request and a handle of the schema or one past it.
TryAccess(req, hdl) ==
    /\ call.op = "none"
    /\ hdl <= Len(attr) + 1
    /\ call' = [NoCall EXCEPT !.op = "try_access", !.start = hdl, !.end = hdl,
                              !.req = req]
    /\ result' = try_access(attr, req, hdl)
    /\ UNCHANGED <<attr, it, hostVars>>

AccessNext ==
    \/ \E req \in AccessRequests, hdl \in 1..(6 + MaxTail + 1) : TryAccess(req, hdl)
    \/ Return

SpecAccess == AccessInit /\ [][AccessNext]_vars

(* ------------------------------------------------------------------------ *)
(* Claims about the access check                                            *)
(* ------------------------------------------------------------------------ *)

\* The position of the attribute try_access was asked about (0: no such
\* attribute).
Asked == IF call.op = "try_access" /\ call.start <= Len(attr) THEN call.start ELSE 0

\* The positions of the characteristic declarations whose definition holds
\* position k: the declaration at or before k with no declaration of another
\* group up to k.
Owners(k) ==
    {c \in Chars : c <= k /\ \A b \in GroupBreaks("characteristic", c) : k < b}

\* Position k is the value attribute of the characteristic declared at c.
IsValueOf(k, c) == c \in Owners(k) /\ attr[k].hdl = value_handle(attr[c].val)

\* The permission test of the asked attribute passes for the request.
Permitted == Asked # 0 /\ PermsTest(attr[Asked].perms, call.req.ac) = ""

\* The property bit the opcode table assigns to a read or write opcode.
TableBit(op) ==
    CASE op \in {"ReadReq", "ReadByTypeReq", "ReadBlobReq", "ReadMultipleReq",
                 "ReadMultipleVariableReq"} -> "READ"
      [] op = "WriteCmd" -> "WRITE_CMD"
      [] op \in {"WriteReq", "PrepareWriteReq"} -> "WRITE"
      [] op = "SignedWriteCmd" -> "SIGNED_WRITE_CMD"

\* C21: an access to a characteristic's value attribute that passes the
\* permission test is allowed exactly when the properties hold the bit the
\* table gives the opcode, and an opcode outside the table is answered
\* RequestNotSupported.
C21_PropertyBit ==
    \A c \in Chars :
        (Permitted /\ IsValueOf(Asked, c)) =>
            IF call.req.op \in ReadOps \cup WriteOps
            THEN result.ok <=> TableBit(call.req.op) \in attr[c].val.props
            ELSE ~result.ok /\ result.err = "RequestNotSupported"

C21_Witness ==
    /\ Permitted
    /\ \E c \in Chars : IsValueOf(Asked, c) /\ attr[c].val.props = {"SIGNED_WRITE_CMD"}
    /\ call.req.op = "SignedWriteCmd"
    /\ result.ok

\* C22: when the bit is missing the error is ReadNotPermitted for a read and
\* WriteNotPermitted for a write, with the opcode of the request and the
\* handle of the attribute.
C22_MissingBit ==
    \A c \in Chars :
        (/\ Permitted
         /\ IsValueOf(Asked, c)
         /\ call.req.op \in ReadOps \cup WriteOps
         /\ TableBit(call.req.op) \notin attr[c].val.props) =>
            /\ ~result.ok
            /\ result.err = (IF call.req.op \in ReadOps THEN "ReadNotPermitted"
                             ELSE "WriteNotPermitted")
            /\ result.op = call.req.op
            /\ result.hdl = attr[Asked].hdl

C22_Witness ==
    /\ Permitted
    /\ \E c \in Chars : IsValueOf(Asked, c) /\ attr[c].val.props = {"WRITE", "WRITE_CMD"}
    /\ call.req.op = "SignedWriteCmd"
    /\ result.err = "WriteNotPermitted"

\* The characteristic declared at c has WRITABLE_AUX: the EXT_PROPS bit and an
\* Extended Properties descriptor of its own that carries the bit.
WritableAux(c) ==
    /\ "EXT_PROPS" \in attr[c].val.props
    /\ \E k \in 1..Len(attr) :
        /\ c \in Owners(k)
        /\ attr[k].typ = EXT_PROPS
        /\ WRITABLE_AUX \in attr[k].val.props

\* C23: once the permission test passes, a write to a User Description
\* descriptor is allowed exactly when its characteristic has WRITABLE_AUX and
\* is otherwise answered WriteNotPermitted; every access to another attribute
\* that is no characteristic value, and every read of the descriptor, is
\* allowed.
C23_UserDescription ==
    Permitted =>
        IF \E c \in Chars : IsValueOf(Asked, c) THEN TRUE
        ELSE IF /\ attr[Asked].typ = UserDescription
                /\ Owners(Asked) # {}
                /\ call.req.ac.typ = "WRITE"
        THEN \A c \in Owners(Asked) :
                IF WritableAux(c) THEN result.ok
                ELSE /\ ~result.ok
                     /\ result.err = "WriteNotPermitted"
                     /\ result.hdl = attr[Asked].hdl
        ELSE result.ok

C23_Witness ==
    /\ Permitted
    /\ attr[Asked].typ = UserDescription
    /\ call.req.op = "WriteReq"
    /\ result.ok

(* ------------------------------------------------------------------------ *)
(* UUIDs                                                                    *)
(* ------------------------------------------------------------------------ *)

\* A u128 is a sequence of eight 16-bit limbs, the most significant first.

\* How far a limb of a UUID tried departs from the limb of BASE, and the
\* largest small value tried in its upper 32 bits.
MaxDelta == 1

U16Max == 256 * 256 - 1

\* BASE = 0x00000000_0000_1000_8000_00805F9B34FB
BASE == <<0, 0, 0, 4096, 32768, 128, 24475, 13563>>

\* SHIFT = u128::BITS - u32::BITS = 96 bits, that is six limbs.
SHIFT == 6

\* Bitwise operations on 16-bit limbs.
RECURSIVE BitAnd(_, _, _)
BitAnd(x, y, n) ==
    IF n = 0 THEN 0
    ELSE (IF x % 2 = 1 /\ y % 2 = 1 THEN 1 ELSE 0) + 2 * BitAnd(x \div 2, y \div 2, n - 1)
BitNot(x) == U16Max - x
BitOr(x, y) == x + y - BitAnd(x, y, 16)

\* x & y, x | y, !x, x >> (16 * n) and x << (16 * n) on u128.
And128(x, y) == [k \in 1..8 |-> BitAnd(x[k], y[k], 16)]
Or128(x, y) == [k \in 1..8 |-> BitOr(x[k], y[k])]
Not128(x) == [k \in 1..8 |-> BitNot(x[k])]
Shr128(x, n) == [k \in 1..8 |-> IF k > n THEN x[k - n] ELSE 0]
Shl128(x, n) == [k \in 1..8 |-> IF k + n <= 8 THEN x[k + n] ELSE 0]

\* v as u128, for a u16 and for a u32 of two limbs; x as u16 and x as u32.
FromU16(v) == <<0, 0, 0, 0, 0, 0, 0, v>>
FromU32(v) == <<0, 0, 0, 0, 0, 0, v[1], v[2]>>
AsU16(x) == x[8]
AsU32(x) == <<x[7], x[8]>>

\* A mask that clears the upper 32 bits (MASK_32 in place of MASK_16).
MASK_16_Upper32 == Not128(Shl128(FromU32(<<U16Max, U16Max>>), SHIFT))

\* MASK_16 = !((u16::MAX as u128) << SHIFT), MASK_32 likewise for u32::MAX.
MASK_16 == Not128(Shl128(FromU16(U16Max), SHIFT))
MASK_32 == Not128(Shl128(FromU32(<<U16Max, U16Max>>), SHIFT))

Some(v) == [some |-> TRUE, v |-> v]
None == [some |-> FALSE, v |-> 0]

\* Uuid::as_u16
as_u16(x) ==
    LET v == AsU16(Shr128(x, SHIFT))
    IN  IF And128(x, MASK_16) = BASE /\ v > 0 THEN Some(v) ELSE None

\* An as_u32 that also takes the values a u16 holds.
as_u32_AnyValue(x) ==
    LET v == AsU32(Shr128(x, SHIFT))
    IN  IF And128(x, MASK_32) = BASE /\ v # <<0, 0>> THEN Some(v) ELSE None

\* Uuid::as_u32: v > u32::from(u16::MAX) is a non-zero upper limb.
as_u32(x) ==
    LET v == AsU32(Shr128(x, SHIFT))
    IN  IF And128(x, MASK_32) = BASE /\ v[1] > 0 THEN Some(v) ELSE None

\* An as_u128 that tells the base by the 16-bit mask.
as_u128_Mask16(x) == IF And128(x, MASK_16) # BASE THEN Some(x) ELSE None

\* Uuid::as_u128
as_u128(x) == IF And128(x, MASK_32) # BASE THEN Some(x) ELSE None

\* Uuid16::sig(v).as_uuid(): (v as u128) << SHIFT | BASE
as_uuid(v) == Or128(Shl128(FromU16(v), SHIFT), BASE)

\* The limbs tried: small values, an assigned number, the largest.
UpperLimbs == (0..MaxDelta) \cup {6159, U16Max}
LowerLimbs(k) == {(BASE[k] + d) % (U16Max + 1) : d \in 0..MaxDelta}

\* Uuid::new: the u128 values tried, none of them zero.
Uuids ==
    UpperLimbs \X UpperLimbs \X LowerLimbs(3) \X LowerLimbs(4) \X LowerLimbs(5)
        \X LowerLimbs(6) \X LowerLimbs(7) \X LowerLimbs(8)

\* No UUID is held: a Uuid is never zero.
NoUuid == <<0, 0, 0, 0, 0, 0, 0, 0>>

UuidInit ==
    /\ HostInit
    /\ attr = <<>>
    /\ it = 0
    /\ result = <<>>
    /\ call \in {[NoCall EXCEPT !.uuid = x] : x \in Uuids \cup {NoUuid}}

\* The three projections of the UUID held.
Project ==
    /\ call.op = "none"
    /\ call.uuid # NoUuid
    /\ call' = [call EXCEPT !.op = "project"]
    /\ result' = [u16 |-> as_u16(call.uuid), u32 |-> as_u32(call.uuid),
                  u128 |-> as_u128(call.uuid)]
    /\ UNCHANGED <<attr, it, hostVars>>

\* Uuid16::sig(v).as_uuid(): where no UUID is held yet, the UUID of the
\* 16-bit value v (kept in call.start) is made.
Sig(v) ==
    /\ call.op = "none"
    /\ call.uuid = NoUuid
    /\ v # 0
    /\ call' = [call EXCEPT !.start = v, !.uuid = as_uuid(v)]
    /\ UNCHANGED <<attr, it, result, hostVars>>

\* The projections are dropped; the UUID stays.
Drop ==
    /\ call.op = "project"
    /\ call' = [call EXCEPT !.op = "none"]
    /\ result' = <<>>
    /\ UNCHANGED <<attr, it, hostVars>>

\* The u16 values given to Uuid16::sig: those above and every single bit.
RECURSIVE Pow2(_)
Pow2(n) == IF n = 0 THEN 1 ELSE 2 * Pow2(n - 1)
SigValues == UpperLimbs \cup {Pow2(n) : n \in 0..15}

UuidNext ==
    \/ Project
    \/ \E v \in SigValues : Sig(v)
    \/ Drop

SpecUuid == UuidInit /\ [][UuidNext]_vars

(* ----------------------------- UUID claims ------------------------------ *)

\* The low 96 bits of the UUID held are those of BASE.
OnBase == \A k \in 3..8 : call.uuid[k] = BASE[k]

\* C24 as stated: as_u16 is Some exactly when the low 96 bits are those of
\* the base and the top 16 bits (bits 112..127) are not zero.
C24_Original ==
    call.op = "project" => (result.u16.some <=> (OnBase /\ call.uuid[1] # 0))

\* C24: as_u16 is Some exactly when the low 96 bits are those of the base and
\* the 32 bits above them hold a non-zero value that fits a u16 (bits
\* 112..127 zero, bits 96..111 not zero); the value is bits 96..111.
C24_Sig16 ==
    call.op = "project" =>
        /\ result.u16.some <=> (OnBase /\ call.uuid[1] = 0 /\ call.uuid[2] # 0)
        /\ result.u16.some => result.u16.v = call.uuid[2]

C24_Witness ==
    /\ call.op = "project"
    /\ call.uuid[1] = 0
    /\ result.u16 = Some(6159)

\* C25: at most one projection of a UUID is Some; a 16-bit or 32-bit
\* projection v gives the UUID back as (v << 96) | BASE; and the UUID of
\* Uuid16::sig(v) projects to Some(v).
C25_Projections ==
    call.op = "project" =>
        /\ Cardinality({p \in {"u16", "u32", "u128"} : result[p].some}) <= 1
        /\ result.u16.some =>
                Or128(Shl128(FromU16(result.u16.v), SHIFT), BASE) = call.uuid
        /\ result.u32.some =>
                Or128(Shl128(FromU32(result.u32.v), SHIFT), BASE) = call.uuid
        /\ call.start # 0 => result.u16 = Some(call.start)

C25_Witness ==
    /\ call.op = "project"
    /\ call.start = U16Max
    /\ result.u16.some
    /\ ~result.u32.some

(* ------------------------------------------------------------------------ *)
(* Event codes and event masks                                              *)
(* ------------------------------------------------------------------------ *)

\* EventCode and EventCode::set: every code of the enum with its u16 value
\* (an LE subevent s is s << 8 | LeMetaEvent) and the page and bit the match
\* in set gives it ("none": the event cannot be masked).
EventCodeTable == {
    <<"InquiryComplete", 1, "p1", 0>>,
    <<"InquiryResult", 2, "p1", 1>>,
    <<"ConnectionComplete", 3, "p1", 2>>,
    <<"ConnectionRequest", 4, "p1", 3>>,
    <<"DisconnectionComplete", 5, "p1", 4>>,
    <<"AuthenticationComplete", 6, "p1", 5>>,
    <<"RemoteNameRequestComplete", 7, "p1", 6>>,
    <<"EncryptionChangeV1", 8, "p1", 7>>,
    <<"EncryptionChangeV2", 89, "p2", 25>>,
    <<"ChangeConnectionLinkKeyComplete", 9, "p1", 8>>,
    <<"LinkKeyTypeChanged", 10, "p1", 9>>,
    <<"ReadRemoteSupportedFeaturesComplete", 11, "p1", 10>>,
    <<"ReadRemoteVersionInformationComplete", 12, "p1", 11>>,
    <<"QosSetupComplete", 13, "p1", 12>>,
    <<"CommandComplete", 14, "none", 0>>,
    <<"CommandStatus", 15, "none", 0>>,
    <<"HardwareError", 16, "p1", 15>>,
    <<"FlushOccurred", 17, "p1", 16>>,
    <<"RoleChange", 18, "p1", 17>>,
    <<"NumberOfCompletedPackets", 19, "none", 0>>,
    <<"ModeChange", 20, "p1", 19>>,
    <<"ReturnLinkKeys", 21, "p1", 20>>,
    <<"PinCodeRequest", 22, "p1", 21>>,
    <<"LinkKeyRequest", 23, "p1", 22>>,
    <<"LinkKeyNotification", 24, "p1", 23>>,
    <<"LoopbackCommand", 25, "p1", 24>>,
    <<"DataBufferOverflow", 26, "p1", 25>>,
    <<"MaxSlotsChange", 27, "p1", 26>>,
    <<"ReadClockOffsetComplete", 28, "p1", 27>>,
    <<"ConnectionPacketTypeChanged", 29, "p1", 28>>,
    <<"QosViolation", 30, "p1", 29>>,
    <<"PageScanRepetitionModeChange", 32, "p1", 31>>,
    <<"FlowSpecificationComplete", 33, "p1", 32>>,
    <<"InquiryResultWithRssi", 34, "p1", 33>>,
    <<"ReadRemoteExtendedFeaturesComplete", 35, "p1", 34>>,
    <<"SynchronousConnectionComplete", 44, "p1", 43>>,
    <<"SynchronousConnectionChanged", 45, "p1", 44>>,
    <<"SniffSubrating", 46, "p1", 45>>,
    <<"ExtendedInquiryResult", 47, "p1", 46>>,
    <<"EncryptionKeyRefreshComplete", 48, "p1", 47>>,
    <<"IoCapabilityRequest", 49, "p1", 48>>,
    <<"IoCapabilityResponse", 50, "p1", 49>>,
    <<"UserConfirmationRequest", 51, "p1", 50>>,
    <<"UserPasskeyRequest", 52, "p1", 51>>,
    <<"RemoteOobDataRequest", 53, "p1", 52>>,
    <<"SimplePairingComplete", 54, "p1", 53>>,
    <<"LinkSupervisionTimeoutChanged", 56, "p1", 55>>,
    <<"EnhancedFlushComplete", 57, "p1", 56>>,
    <<"UserPasskeyNotification", 59, "p1", 58>>,
    <<"KeypressNotification", 60, "p1", 59>>,
    <<"RemoteHostSupportedFeaturesNotification", 61, "p1", 60>>,
    <<"NumberOfCompletedDataBlocks", 72, "p2", 8>>,
    <<"LeMetaEvent", 62, "p1", 61>>,
    <<"LeConnectionComplete", 318, "le", 0>>,
    <<"LeAdvertisingReport", 574, "le", 1>>,
    <<"LeConnectionUpdateComplete", 830, "le", 2>>,
    <<"LeReadRemoteFeaturesComplete", 1086, "le", 3>>,
    <<"LeLongTermKeyRequest", 1342, "le", 4>>,
    <<"LeRemoteConnectionParameterRequest", 1598, "le", 5>>,
    <<"LeDataLengthChange", 1854, "le", 6>>,
    <<"LeReadLocalP256PublicKeyComplete", 2110, "le", 7>>,
    <<"LeGenerateDhKeyComplete", 2366, "le", 8>>,
    <<"LeEnhancedConnectionComplete", 2622, "le", 9>>,
    <<"LeDirectedAdvertisingReport", 2878, "le", 10>>,
    <<"LePhyUpdateComplete", 3134, "le", 11>>,
    <<"LeExtendedAdvertisingReport", 3390, "le", 12>>,
    <<"LePeriodicAdvertisingSyncEstablished", 3646, "le", 13>>,
    <<"LePeriodicAdvertisingReport", 3902, "le", 14>>,
    <<"LePeriodicAdvertisingSyncLost", 4158, "le", 15>>,
    <<"LeScanTimeout", 4414, "le", 16>>,
    <<"LeAdvertisingSetTerminated", 4670, "le", 17>>,
    <<"LeScanRequestReceived", 4926, "le", 18>>,
    <<"LeChannelSelectionAlgorithm", 5182, "le", 19>>,
    <<"LeConnectionlessIqReport", 5438, "le", 20>>,
    <<"LeConnectionIqReport", 5694, "le", 21>>,
    <<"LeCteRequestFailed", 5950, "le", 22>>,
    <<"LePeriodicAdvertisingSyncTransferReceived", 6206, "le", 23>>,
    <<"LeCisEstablished", 6462, "le", 24>>,
    <<"LeCisRequest", 6718, "le", 25>>,
    <<"LeCreateBigComplete", 6974, "le", 26>>,
    <<"LeTerminateBigComplete", 7230, "le", 27>>,
    <<"LeBigSyncEstablished", 7486, "le", 28>>,
    <<"LeBigSyncLost", 7742, "le", 29>>,
    <<"LeRequestPeerScaComplete", 7998, "le", 30>>,
    <<"LePathLossThreshold", 8254, "le", 31>>,
    <<"LeTransmitPowerReporting", 8510, "le", 32>>,
    <<"LeBigInfoAdvertisingReport", 8766, "le", 33>>,
    <<"LeSubrateChange", 9022, "le", 34>>,
    <<"TriggeredClockCapture", 78, "p2", 14>>,
    <<"SynchronizationTrainComplete", 79, "p2", 15>>,
    <<"SynchronizationTrainReceived", 80, "p2", 16>>,
    <<"ConnectionlessPeripheralBroadcastReceive", 81, "p2", 17>>,
    <<"ConnectionlessPeripheralBroadcastTimeout", 82, "p2", 18>>,
    <<"TruncatedPageComplete", 83, "p2", 19>>,
    <<"PeripheralPageResponseTimeout", 84, "p2", 20>>,
    <<"ConnectionlessPeripheralBroadcastChannelMapChange", 85, "p2", 21>>,
    <<"InquiryResponseNotification", 86, "p2", 22>>,
    <<"AuthenticatedPayloadTimeoutExpired", 87, "p2", 23>>,
    <<"SamStatusChange", 88, "p2", 24>>,
    <<"Vendor", 255, "none", 0>>}

EventNames == {row[1] : row \in EventCodeTable}
RowByName == [name \in EventNames |-> CHOOSE row \in EventCodeTable : row[1] = name]
RowOf(name) == RowByName[name]

\* self as u16
CodeOf(name) == RowOf(name)[2]

\* EventCode::is_cmd: (self as u16) & CMD == CMD, CMD being CommandComplete.
is_cmd(name) == BitAnd(CodeOf(name), CommandComplete, 16) = CommandComplete

\* The event code is_cmd is asked about is held in call.uuid.
CodesInit ==
    /\ HostInit
    /\ attr = <<>>
    /\ it = 0
    /\ result = <<>>
    /\ call \in {[NoCall EXCEPT !.uuid = name] : name \in EventNames}

IsCmdCall ==
    /\ call.op = "none"
    /\ call' = [call EXCEPT !.op = "is_cmd"]
    /\ result' = is_cmd(call.uuid)
    /\ UNCHANGED <<attr, it, hostVars>>

SpecCodes == CodesInit /\ [][IsCmdCall]_vars

\* C26: is_cmd is true for CommandComplete and CommandStatus and false for
\* every other code of the enum.
C26_IsCmd ==
    call.op = "is_cmd" => (result <=> call.uuid \in {"CommandComplete", "CommandStatus"})

(* ------------------------------ event masks ----------------------------- *)

\* The most calls of set on one mask.
MaxSets == 2

\* A u64 page of the mask is the set of the positions of its 1 bits.
Bits == 0..63
Pages == {"p1", "p2", "le"}

\* EventMask::default()
EventMaskDefault == [p1 |-> {}, p2 |-> {}, le |-> {}]

\* A set that stores the new bit over the whole page.
set_Overwrite(name, m, enable) ==
    LET row == RowOf(name)
    IN  IF row[3] = "none" THEN m
        ELSE [m EXCEPT ![row[3]] = IF enable THEN {row[4]} ELSE {}]

\* EventCode::set: *pg = *pg & !(1 << bit) | u64::from(enable) << bit, and
\* nothing for the events that cannot be masked.
set(name, m, enable) ==
    LET row == RowOf(name)
    IN  IF row[3] = "none" THEN m
        ELSE [m EXCEPT ![row[3]] = (@ \ {row[4]}) \cup (IF enable THEN {row[4]} ELSE {})]

\* The mask is held in result, the number of calls of set on it in it.
MaskInit ==
    /\ HostInit
    /\ attr = <<>>
    /\ it = 0
    /\ call = NoCall
    /\ result = EventMaskDefault

\* EventCode::set(name, &mut mask, enable)
Set(name, enable) ==
    /\ it < MaxSets
    /\ it' = it + 1
    /\ call' = [NoCall EXCEPT !.op = "set", !.uuid = name,
                              !.state = IF enable THEN "enable" ELSE "disable"]
    /\ result' = set(name, result, enable)
    /\ UNCHANGED <<attr, hostVars>>

MaskNext == \E name \in EventNames, enable \in BOOLEAN : Set(name, enable)

SpecMask == MaskInit /\ [][MaskNext]_vars

\* The events set gives a bit, and those it gives none.
Maskable == {name \in EventNames : RowOf(name)[3] # "none"}
Unmaskable == {"CommandComplete", "CommandStatus", "NumberOfCompletedPackets", "Vendor"}

\* C27: a call of set for a maskable event leaves the event's bit, on its one
\* page, with the value enable and every other bit of the three pages as it
\* was; two calls for distinct maskable events change distinct bits (the
\* first event's bit keeps the value the first call gave it); a call for
\* CommandComplete, CommandStatus, NumberOfCompletedPackets or Vendor changes
\* nothing.
C27_SetBit ==
    [][it' = it + 1 =>
        LET row == RowOf(call'.uuid)
            on == call'.state = "enable"
        IN  /\ call'.uuid \in Unmaskable <=> call'.uuid \notin Maskable
            /\ call'.uuid \in Unmaskable => result' = result
            /\ call'.uuid \in Maskable =>
                /\ row[3] \in Pages /\ row[4] \in Bits
                /\ row[4] \in result'[row[3]] <=> on
                /\ result'[row[3]] \ {row[4]} = result[row[3]] \ {row[4]}
                /\ \A pg \in Pages \ {row[3]} : result'[pg] = result[pg]
            /\ (call.op = "set" /\ call.uuid \in Maskable /\ call'.uuid \in Maskable
                    /\ call.uuid # call'.uuid) =>
                    LET first == RowOf(call.uuid)
                    IN  /\ <<first[3], first[4]>> # <<row[3], row[4]>>
                        /\ first[4] \in result'[first[3]] <=> call.state = "enable"]_vars

C27_Witness ==
    /\ it = 2
    /\ call.op = "set" /\ call.uuid = "LeConnectionComplete" /\ call.state = "disable"
    /\ result = [p1 |-> {61}, p2 |-> {}, le |-> {}]

(* ------------------------------------------------------------------------ *)
(* SMP toolbox: numeric comparison value                                    *)
(* ------------------------------------------------------------------------ *)

\* The largest value tried in each of the limbs of the MAC above its low 32
\* bits that are varied.
MaxMacHigh == 1

Million == 1000000

\* (r * 2^16 + limb) % 1_000_000 for r below a million, in steps that stay
\* within 31 bits.
ShiftIn(r, limb) == (((((r * 256) % Million) * 256) % Million) + limb) % Million

\* v % 1_000_000 for a u32 v of two limbs.
U32Mod(v) == ShiftIn(v[1] % Million, v[2])

\* x % 1_000_000 for a u128 x of eight limbs.
RECURSIVE U128Mod(_, _)
U128Mod(x, n) == IF n = 0 THEN 0 ELSE ShiftIn(U128Mod(x, n - 1), x[n])

\* A g2 that reduces the whole MAC.
NumCompare_Whole(mac) == U128Mod(mac, 8)

\* Nonce::g2, of the value m.finalize() returned:
\* NumCompare(m.finalize() as u32 % 1_000_000)
NumCompare(mac) == U32Mod(AsU32(mac))

\* AesCmac::finalize: the MACs tried. The limbs of the low 32 bits take
\* small values, the residues of a million, an assigned test value and the
\* largest value; two limbs above them take small values.
LowWordLimbs == {0, 1, 15, 16960, 12190, 54714, U16Max}
Macs ==
    {<<h, 0, 0, 0, 0, g, hi, lo>> :
        h \in {0, U16Max}, g \in 0..MaxMacHigh, hi \in LowWordLimbs, lo \in LowWordLimbs}

\* The MAC g2 computed is held in call.req.
G2Init ==
    /\ HostInit
    /\ attr = <<>>
    /\ it = 0
    /\ result = <<>>
    /\ call \in {[NoCall EXCEPT !.req = mac] : mac \in Macs}

\* Nonce::g2 returns the numeric comparison value.
G2 ==
    /\ call.op = "none"
    /\ call' = [call EXCEPT !.op = "g2"]
    /\ result' = NumCompare(call.req)
    /\ UNCHANGED <<attr, it, hostVars>>

SpecG2 == G2Init /\ [][G2]_vars

\* C28 as stated: the value is in 0..999999 and is the 128-bit MAC modulo a
\* million.
C28_Original ==
    call.op = "g2" => result \in 0..(Million - 1) /\ result = U128Mod(call.req, 8)

\* C28: the value is in 0..999999 and is congruent modulo a million to the
\* low 32 bits of the MAC (the MAC modulo 2^32), whatever the upper 96 bits.
C28_LowWord ==
    call.op = "g2" =>
        /\ result \in 0..(Million - 1)
        /\ (ShiftIn(call.req[7] % Million, call.req[8]) + Million - result) % Million = 0

C28_Witness ==
    /\ call.op = "g2"
    /\ call.req[6] = 1
    /\ call.req[7] = 12190 /\ call.req[8] = 54714
    /\ result = 938554

(* ------------------------------------------------------------------------ *)
(* Event router: delivery to the waiters                                    *)
(* ------------------------------------------------------------------------ *)

\* The ready slot of t's waiter holds a guard that next() has not taken yet.
Delivered(t) == HasWaiter(t) /\ WaiterOf(t).ready # NoGuard

\* A transfer completes.
Receiving == nread' # nread

\* C30: under fair scheduling, an event that recv_event delivered to the
\* waiter of a task is returned by the task's next(), unless the task drops
\* its waiter first: no matching event is dropped and no wake-up is lost.
\* The guard in the slot is that of the latest transfer, no transfer
\* completes while it is there, it leaves the slot only into the hands of the
\* task or with the waiter, and the task comes to hold the guard of the
\* latest transfer: the one that was delivered.
C30_Delivery ==
    /\ [](\A t \in Tasks : Delivered(t) => WaiterOf(t).ready = nread)
    /\ [][Receiving => \A t \in Tasks : ~Delivered(t)]_vars
    /\ [][\A t \in Tasks : Delivered(t) /\ ~Delivered(t)' =>
            tguard'[t] = WaiterOf(t).ready \/ wid'[t] = NoId]_vars
    /\ \A t \in Tasks : Delivered(t) ~> (tguard[t] = nread \/ wid[t] = NoId)

\* Task t1 was waiting for the response to SetEventMask, the controller
\* answered CommandStatus(CommandDisallowed), and next() returned its guard.
C30_Witness ==
    /\ tfilter["t1"] = Command(OpcodeSetEventMask)
    /\ xfer = <<15, 4, 12, 0, 1, 12>>
    /\ tguard["t1"] = nread
    /\ tlast["t1"] = nread
    /\ tres["t1"] = "event"
    /\ ok(evt).kind = "CommandFailed"

(* ------------------------------------------------------------------------ *)
(* Event router: events nobody waits for                                    *)
(* ------------------------------------------------------------------------ *)

\* This step is a recv_event that hands out an event no waiter's filter
\* matches.
Unmatched ==
    /\ Delivering
    /\ \A k \in 1..Len(queue) : ~matches(evt', xfer', params', queue[k].filter)

\* The guard caller c holds is the one view of the event buffer, and it is a
\* view of the latest transfer.
Sole(c) == cguard[c] # NoGuard /\ cguard[c] = nread /\ readers = 1 /\ ~writer

\* C31: an event that matches no waiter fills no ready slot and wakes no
\* task, and leaves the caller's guard as the only read guard; the guard
\* stays the only one while the caller holds it, and once the caller drops
\* it the write lock can be taken at once.
C31_UnmatchedDropped ==
    /\ [][Unmatched =>
            /\ queue' = queue
            /\ tpc' = tpc
            /\ \E c \in Callers : cguard'[c] # cguard[c] /\ Sole(c)']_vars
    /\ [][\A c \in Callers :
            Sole(c) =>
                IF cguard'[c] = cguard[c] THEN Sole(c)' ELSE CanWrite']_vars

\* A HardwareError arrived while t1 was parked waiting for something else:
\* t1 is still parked with an empty slot, and the receiver task has dropped
\* its guard and holds the write lock for the next transfer.
C31_Witness ==
    /\ nread = 1
    /\ xfer = <<16, 1, 0>>
    /\ HasWaiter("t1") /\ WaiterOf("t1").ready = NoGuard
    /\ tpc["t1"] = "parked"
    /\ cpc["task"] = "receiving"
    /\ writer

(* ------------------------------------------------------------------------ *)
(* Access checks of handle lists                                            *)
(* ------------------------------------------------------------------------ *)

\* The longest handle list tried.
MaxHdls == 3

\* A service with two characteristics, each readable or writable, each value
\* open or requiring authentication.
TwoChars ==
    {Numbered(<<Decl(PRI, {}, GenericAccess, Open),
                Decl(CHAR, {p1}, "", Open), Decl(DeviceName, {}, "", q1),
                Decl(CHAR, {p2}, "", Open), Decl(Appearance, {}, "", q2)>>) :
        p1 \in {"READ", "WRITE"}, q1 \in {Open, Authn},
        p2 \in {"READ", "WRITE"}, q2 \in {Open, Authn}}

\* Lists of at most n handles of such a schema, one past its end included.
RECURSIVE HandleLists(_)
HandleLists(n) ==
    IF n = 0 THEN {<<>>}
    ELSE HandleLists(n - 1)
            \cup {Append(v, h) : v \in {w \in HandleLists(n - 1) : Len(w) = n - 1},
                                 h \in 1..6}

MultiRequests ==
    {Request("ReadMultipleReq", "READ", authn) : authn \in BOOLEAN}
        \cup {Request("WriteReq", "WRITE", TRUE)}

\* The handle list is held in call.uuid, the request in call.req.
MultiInit ==
    /\ HostInit
    /\ attr \in TwoChars
    /\ it = 0
    /\ result = <<>>
    /\ call \in {[NoCall EXCEPT !.uuid = v, !.req = req] :
                    v \in HandleLists(MaxHdls), req \in MultiRequests}

\* Schema::try_multi_access
TryMultiAccess ==
    /\ call.op = "none"
    /\ call' = [call EXCEPT !.op = "try_multi_access"]
    /\ result' = try_multi_access(attr, call.req, call.uuid)
    /\ UNCHANGED <<attr, it, hostVars>>

SpecMulti == MultiInit /\ [][TryMultiAccess]_vars

\* The positions of the attributes with handle h (none when h names no
\* attribute).
AttrsOf(h) == {k \in 1..Len(attr) : attr[k].hdl = h}

\* The check of the j-th handle of the list, taken alone.
CheckOf(j) ==
    LET h == call.uuid[j] IN
    IF AttrsOf(h) = {} THEN hdl_err(call.req.op, "InvalidHandle", h)
    ELSE access_check(attr, call.req, (CHOOSE k \in AttrsOf(h) : TRUE) - 1)

\* The places of the list whose handle fails its check.
Failing == {j \in 1..Len(call.uuid) : ~CheckOf(j).ok}

\* C32: try_multi_access answers InvalidPdu for an empty list, else the
\* failure of the first handle in list order that has no attribute or fails
\* its access check, whatever the handles after it are, and Ok with the list
\* as given only when no handle fails.
C32_FirstFailure ==
    call.op = "try_multi_access" =>
        IF call.uuid = <<>>
        THEN ~result.ok /\ result.err = "InvalidPdu" /\ result.op = call.req.op
        ELSE IF Failing # {}
        THEN result = CheckOf(Least(Failing))
        ELSE result.ok /\ result.hdls = call.uuid

\* The second handle is denied for lack of authentication and the third
\* names no attribute: the answer is the denial of the second.
C32_Witness ==
    /\ call.op = "try_multi_access"
    /\ Len(call.uuid) = 3
    /\ Failing = {2, 3}
    /\ call.uuid[3] = 6
    /\ result.err = "InsufficientAuthentication"
    /\ result.hdl = call.uuid[2]

(* ------------------------------------------------------------------------ *)
(* Event decoder on arbitrary buffers                                       *)
(* ------------------------------------------------------------------------ *)

\* The most parameter bytes of a buffer.
MaxParams == 4

\* Parameter bytes: 1, 12 and 18 are also LE subevent codes (ConnectionComplete,
\* PhyUpdateComplete, AdvertisingSetTerminated), 12 and 18 status codes, and
\* 1, 12 the bytes of Opcode::SetEventMask.
ByteVals == {0, 1, 12, 18}

\* Event codes tried: CommandComplete, CommandStatus, DisconnectionComplete
\* (status, connection handle), HardwareError and NumberOfCompletedPackets
\* (neither), LeMetaEvent, and 0, which is no event code.
CodeVals == {0, 5, 14, 15, 16, 19, 62}

RECURSIVE ByteSeqs(_)
ByteSeqs(n) ==
    IF n = 0 THEN {<<>>}
    ELSE ByteSeqs(n - 1)
            \cup {Append(v, b) : v \in {w \in ByteSeqs(n - 1) : Len(w) = n - 1},
                                 b \in ByteVals}

\* Buffers: a code, a length byte that is right or off by one, and the
\* parameters; and buffers shorter than the header.
Buffers ==
    {<<>>} \cup {<<c>> : c \in CodeVals}
        \cup UNION {{<<c, n>> \o v : c \in CodeVals,
                                      n \in {Len(v) - 1, Len(v), Len(v) + 1} \cap (0..255)} :
                        v \in ByteSeqs(MaxParams)}

\* The buffer is held in call.req.
DecodeInit ==
    /\ HostInit
    /\ attr = <<>>
    /\ it = 0
    /\ result = <<>>
    /\ call \in {[NoCall EXCEPT !.req = b] : b \in Buffers}

\* Event::try_from
Decode ==
    /\ call.op = "none"
    /\ call' = [call EXCEPT !.op = "try_from"]
    /\ result' = TryFrom(call.req)
    /\ UNCHANGED <<attr, it, hostVars>>

SpecDecode == DecodeInit /\ [][Decode]_vars

\* The buffer holds the header and as many bytes after it as the header says.
WellFramed(b) == Len(b) >= EVT_HDR /\ b[2] = Len(b) - EVT_HDR

\* The u16 at position p of b (least significant byte first).
Wire16(b, p) == b[p] + 256 * b[p + 1]

\* What the decoder is to read from a CommandComplete with at least the three
\* bytes of quota and opcode: the fields, and the bytes consumed.
ExpectCommandComplete(b, d) ==
    Len(b) >= 5 =>
        /\ d.cmd_quota = b[3]
        /\ d.opcode = OpcodeFrom(Wire16(b, 4))
        /\ IF Len(b) >= 6
           THEN d.status = StatusFrom(b[6]) /\ d.next = 7
           ELSE d.status = StatusSuccess /\ d.next = 6

ExpectCommandStatus(b, d) ==
    Len(b) >= 6 =>
        /\ d.status = StatusFrom(b[3])
        /\ d.cmd_quota = b[4]
        /\ d.opcode = OpcodeFrom(Wire16(b, 5))
        /\ d.next = 7

\* Any other event whose parameters start at p and hold at least three bytes.
ExpectOther(b, d, p) ==
    LET s == IF d.typ \in FmtStatus THEN 1 ELSE 0 IN
    Len(b) >= p + 2 =>
        /\ d.status = (IF s = 1 THEN StatusFrom(b[p]) ELSE StatusSuccess)
        /\ IF d.typ \in FmtAdvHandle \cup FmtBigHandle
           THEN d.handle = b[p + s] /\ d.next = p + s + 1
           ELSE IF d.typ \in FmtConnHandle \cup FmtSyncHandle
           THEN d.handle = Wire16(b, p + s) /\ d.next = p + s + 2
           ELSE d.handle = 0 /\ d.next = p + s

\* C33: try_from accepts only well-framed buffers and answers InvalidEvent
\* for the others; of an accepted CommandComplete it reads quota, opcode and,
\* if a byte remains, status; of a CommandStatus status, quota, opcode; of
\* any other event a status byte iff its format has one and then a handle of
\* one byte (advertising, BIG) or two (connection, sync).
C33_Decoding ==
    call.op = "try_from" =>
        LET b == call.req IN
        IF ~WellFramed(b) THEN ~result.ok /\ result.err = "InvalidEvent"
        ELSE result.ok =>
                LET d == result.dec IN
                IF b[1] = CommandComplete THEN ExpectCommandComplete(b, d)
                ELSE IF b[1] = CommandStatus THEN ExpectCommandStatus(b, d)
                ELSE IF b[1] = LeMetaEvent
                THEN d.typ = Le(b[3]) /\ ExpectOther(b, d, 4)
                ELSE d.typ = Hci(b[1]) /\ ExpectOther(b, d, 3)

\* A CommandComplete without return parameters is accepted with status
\* Success.
C33_Witness ==
    /\ call.op = "try_from"
    /\ call.req = <<14, 3, 1, 1, 12>>
    /\ result.ok
    /\ result.dec.opcode = OpcodeSetEventMask
    /\ result.dec.status = StatusSuccess

(* ------------------------------------------------------------------------ *)
(* Event router: guards and the event they give access to                   *)
(* ------------------------------------------------------------------------ *)

\* EventReceiver::event is Some: the most recent next() succeeded, and the
\* receiver holds the event decoded from the bytes of the transfer.
HoldsEvent ==
    /\ params >= EVT_HDR
    /\ xfer # <<>>
    /\ TryFrom(xfer).ok
    /\ evt = EventOf(TryFrom(xfer).dec)
    /\ params = TryFrom(xfer).dec.next - 1

\* This step is a receive that failed: the transfer, or its decoding.
FailedReceive == nread' # nread /\ (xfer' = <<>> \/ ~TryFrom(xfer').ok)

\* C34: while an EventGuard exists or a ready slot is filled the receiver
\* holds a decoded event (get never sees None), and a receive that fails
\* creates no guard, fills no slot and wakes no task.
C34_GuardHasEvent ==
    /\ [](GuardCount > 0 => HoldsEvent)
    /\ [][FailedReceive =>
            /\ ~HoldsEvent'
            /\ GuardCount' = 0
            /\ cguard' = cguard
            /\ queue' = queue
            /\ tpc' = tpc]_vars

\* t1 obtained the first event, dropped it and parked again; the host's
\* second receive brought bytes that do not decode: nobody holds a guard and
\* t1 is still parked.
C34_Witness ==
    /\ nread = 2
    /\ xfer = <<14, 9, 1>>
    /\ params = 0
    /\ GuardCount = 0
    /\ tlast["t1"] = 1
    /\ tpc["t1"] = "parked"
    /\ cpc["host"] = "idle"

(* ------------------------------------------------------------------------ *)
(* Event router: every delivered event is obtained once                     *)
(* ------------------------------------------------------------------------ *)

\* The indices of the waiters whose ready slot is filled.
Filled(q) == {k \in 1..Len(q) : q[k].ready # NoGuard}

\* C35: when recv_event hands out an event every ready slot is empty, and
\* the event goes into the slots of exactly the waiters whose filter
\* matches it; next() takes from the slot of its own waiter a guard of a
\* later transfer than the last it returned and leaves the slot empty; and
\* under fair scheduling a filled slot is emptied by the task's next(),
\* unless the task drops its waiter: each waiter that stays registered
\* obtains each matching event once.
C35_ExactlyOnce ==
    /\ [][Delivering =>
            /\ Filled(queue) = {}
            /\ Len(queue') = Len(queue)
            /\ \A k \in 1..Len(queue) :
                queue'[k].ready =
                    IF matches(evt', xfer', params', queue[k].filter)
                    THEN nread' ELSE NoGuard]_vars
    /\ [][\A t \in Tasks :
            Obtaining(t) =>
                /\ HasWaiter(t)
                /\ tguard'[t] = WaiterOf(t).ready
                /\ tguard'[t] > tlast[t]
                /\ tlast'[t] = tguard'[t]
                /\ WaiterOf(t)'.ready = NoGuard]_vars
    /\ \A t \in Tasks :
        (HasWaiter(t) /\ WaiterOf(t).ready # NoGuard)
            ~> (tguard[t] # NoGuard \/ wid[t] = NoId)

\* Two events have been received; the channel manager's task holds the
\* NumberOfCompletedPackets of the second, and its slot is empty again.
C35_Witness ==
    /\ HasWaiter("t2") /\ tfilter["t2"] = ChanManager
    /\ nread = 2
    /\ xfer = <<19, 1, 0>>
    /\ tguard["t2"] = 2
    /\ tlast["t2"] = 2
    /\ WaiterOf("t2").ready = NoGuard

(* ------------------------------------------------------------------------ *)
(* Event router: failed registrations                                       *)
(* ------------------------------------------------------------------------ *)

\* This step is a register call of task t that returned an error.
Refused(t) == Registering(t) /\ tres'[t] \in {"FilterConflict", "CommandQuotaExceeded"}

\* C36: a register call that fails leaves queue, next_id and cmd_quota as
\* they were and gives the task no waiter, and it fails with FilterConflict
\* whenever an equal filter is registered, also when the filter is a command
\* and cmd_quota is 0.
C36_FailedRegister ==
    [][\A t \in Tasks :
        Refused(t) =>
            /\ queue' = queue
            /\ next_id' = next_id
            /\ cmd_quota' = cmd_quota
            /\ wid'[t] = NoId
            /\ Registered(tfilter'[t]) => tres'[t] = "FilterConflict"
            /\ tres'[t] = "CommandQuotaExceeded" =>
                IsCommandFilter(tfilter'[t]) /\ cmd_quota = 0]_vars

\* SetEventMask is pending for t1 and has used up the quota; t2's
\* registration of the same command was refused with FilterConflict.
C36_Witness ==
    /\ HasWaiter("t1") /\ tfilter["t1"] = Command(OpcodeSetEventMask)
    /\ cmd_quota = 0
    /\ wid["t2"] = NoId
    /\ tfilter["t2"] = Command(OpcodeSetEventMask)
    /\ tres["t2"] = "FilterConflict"

(* ------------------------------------------------------------------------ *)
(* Event router: the quota of dropped commands                              *)
(* ------------------------------------------------------------------------ *)

\* C37: dropping a waiter leaves cmd_quota unchanged; cmd_quota grows only
\* in a step that receives a CommandComplete or CommandStatus event; and
\* with cmd_quota 0 a Command registration that no equal filter stands
\* against fails with CommandQuotaExceeded, also after every command waiter
\* has been dropped.
C37_DropKeepsQuota ==
    /\ [][\A t \in Tasks : Dropping(t) => cmd_quota' = cmd_quota]_vars
    /\ [][cmd_quota' > cmd_quota => Delivering /\ IsCmd(evt'.typ)]_vars
    /\ [][\A t \in Tasks :
            (/\ Registering(t)
             /\ IsCommandFilter(tfilter'[t])
             /\ cmd_quota = 0
             /\ ~Registered(tfilter'[t]))
            => tres'[t] = "CommandQuotaExceeded" /\ wid'[t] = NoId]_vars

\* No event has arrived; the one command that was registered has been
\* dropped, the queue is empty, and a further command was refused.
C37_Witness ==
    /\ nread = 0
    /\ next_id = 1
    /\ queue = <<>>
    /\ cmd_quota = 0
    /\ IsCommandFilter(tfilter["t1"])
    /\ tres["t1"] = "CommandQuotaExceeded"

(* ------------------------------------------------------------------------ *)
(* Event router: a live guard has its waiter                                *)
(* ------------------------------------------------------------------------ *)

PermKinds == {Open, "encrypt", Authn, "authz", "keysize"}

PermissionErrors ==
    {"InsufficientEncryption", "InsufficientAuthentication",
     "InsufficientAuthorization", "InsufficientEncryptionKeySize"}

\* A service with one characteristic of any properties whose value has any
\* permissions, and a User Description descriptor with the same permissions.
PermSchemas ==
    {Numbered(<<Decl(PRI, {}, GenericAccess, Open),
                Decl(CHAR, props, "", Open),
                Decl(DeviceName, {}, "", perms),
                Decl(UserDescription, {}, "", perms)>>) :
        props \in SUBSET AllProps, perms \in PermKinds}

PermsInit ==
    /\ HostInit
    /\ attr \in PermSchemas
    /\ call = NoCall
    /\ it = 0
    /\ result = <<>>

PermsNext ==
    \/ \E req \in AccessRequests, hdl \in 1..4 : TryAccess(req, hdl)
    \/ Return

SpecPerms == PermsInit /\ [][PermsNext]_vars

\* The property test alone would refuse the request for the asked
\* attribute: the value of a characteristic without the bit of the opcode
\* (or asked with an opcode that has none), or a User Description descriptor
\* written without WRITABLE_AUX.
PropertyRefusal ==
    /\ Asked # 0
    /\ \E c \in Chars :
        \/ /\ IsValueOf(Asked, c)
           /\ \/ call.req.op \notin ReadOps \cup WriteOps
              \/ TableBit(call.req.op) \notin attr[c].val.props
        \/ /\ c \in Owners(Asked)
           /\ attr[Asked].typ = UserDescription
           /\ call.req.ac.typ = "WRITE"
           /\ ~WritableAux(c)

\* C39: when the permission test of the asked attribute fails, the answer is
\* its permission error, also when the property test would refuse the request
\* as well.
C39_PermissionFirst ==
    (Asked # 0 /\ ~Permitted) =>
        /\ ~result.ok
        /\ result.err = PermsTest(attr[Asked].perms, call.req.ac)
        /\ result.err \in PermissionErrors
        /\ result.hdl = attr[Asked].hdl

\* A write without authorization to the value of a characteristic that can
\* only be read: the answer is InsufficientAuthorization.
C39_Witness ==
    /\ PropertyRefusal
    /\ ~Permitted
    /\ call.req.op = "WriteReq"
    /\ attr[2].val.props = {"READ"}
    /\ Asked = 3
    /\ result.err = "InsufficientAuthorization"

(* ------------------------------------------------------------------------ *)
(* UUIDs: one projection each                                               *)
(* ------------------------------------------------------------------------ *)

\* The UUID held is the Bluetooth base UUID itself.
BareBase == OnBase /\ call.uuid[1] = 0 /\ call.uuid[2] = 0

\* C40: exactly one of as_u16, as_u32 and as_u128 is Some for a UUID, except
\* for the bare base UUID, for which all three are None.
C40_OneProjection ==
    call.op = "project" =>
        Cardinality({p \in {"u16", "u32", "u128"} : result[p].some})
            = (IF BareBase THEN 0 ELSE 1)

C40_Witness ==
    /\ call.op = "project"
    /\ call.uuid = BASE
    /\ result.u16 = None /\ result.u32 = None /\ result.u128 = None

====

